---- MODULE Spec2Model ----
(***************************************************************************)
(* Model of the prioritized event queue of the Ubitrack dataflow runtime   *)
(* (src/src/utDataflow/EventQueue.{h,cpp}) together with the two port      *)
(* operations that take a component mutex (PushConsumer, PullConsumer).    *)
(*                                                                         *)
(* Every section of code that runs with m_Mutex held is one atomic action: *)
(* all accesses to m_State, m_Queue and the receiver counters are made     *)
(* with m_Mutex held, so every state of the model is a state in which      *)
(* m_Mutex is free.                                                        *)
(*                                                                         *)
(* The later sections model the dataflow network                           *)
(* (src/src/utDataflow/DataflowNetwork.cpp): the connections between       *)
(* components and DataflowNetwork::assignEventPriorities().                *)
(***************************************************************************)
EXTENDS Integers, Sequences, FiniteSets, TLC

---------------------------------------------------------------------------
(* Bounds of the model *)

\* total number of QueueData objects that are ever passed to queue()
MaxEvents == 3
\* longest vector passed to one queue() call
MaxBatch == 3
\* priorities are drawn from 1..MaxPrio
MaxPrio == 2
\* finite queue caps are drawn from 0..MaxCap
MaxCap == 1
\* total number of events that are ever posted one by one in the thread model
MaxPosted == 2
\* small dataflow networks have the components 1..n, n <= MaxComponents
MaxComponents == 3
\* number of components of the one long chain network
MaxChain == 257
\* a trigger component has up to MaxTrigPorts input ports in its trigger group
MaxTrigPorts == 2
\* measurements carry the timestamps 0 and 100 .. 100 + MaxStamp
MaxStamp == 1
\* number of pushes and pull requests that one trigger component receives
MaxTrigCalls == 2
\* number of connectComponents() and disconnectComponents() calls
MaxConnects == 2
\* a pattern has up to MaxPatNodes input nodes and MaxPatEdges input edges
MaxPatNodes == 2
MaxPatEdges == 2
\* an SRG has up to MaxSrgNodes nodes and MaxSrgEdges edges
MaxSrgNodes == 2
MaxSrgEdges == 2
\* pattern instances that applyPattern() creates before it is no longer called
MaxInstances == 5
\* a Graph has the node names 1..MaxGraphNodes and the edge names
\* 1..MaxGraphEdges; addEdge() is called up to MaxEdgeObjects times
\* entries of the manager's pattern list and query list together
MaxListed == 2
\* pattern instances that the server's manager creates before
\* recomputeAllQueries() is no longer called
MaxApplied == 2
\* conversion patterns that a client registers
MaxStages == 11
MaxGraphNodes == 2
MaxGraphEdges == 2
MaxEdgeObjects == 3

\* incrementalCompareDataflows: the clients, the subgraph ids of the responses,
\* the query responses of one client and the subgraphs of one response
MaxClients == 2
MaxSubgraphIDs == 2
MaxResponses == 2
MaxGraphs == 1

\* TcpConnection: the send() calls and the headers written by a foreign peer
MaxSent == 2
MaxForeign == 1

\* pulls from inside handlers: the get() calls of a run
MaxCalls == 2
\* number of measurements that are sent to the slave ports of an expansion port
MaxPushed == 3

---------------------------------------------------------------------------
(* Program constants and the objects of the modelled configuration *)

\* a null ReceiverInfo pointer
NoReceiver == 0
\* EventTypeTraits< Measurement::Button >::getMaxQueueLength()
ButtonMaxQueueLength == -1
\* g_defaultMaxQueueLength, here of a build with -DMAXIMUM_EVENTQUEUE_LENGTH=1
g_defaultMaxQueueLength == 1

\* m_State
state_running == "running"
state_stopping == "stopping"
state_stopped == "stopped"
state_end == "end"

\* two components; component 1 owns two push consumer ports, component 2 one
Components == {1, 2}
\* the ReceiverInfo objects, one per push consumer port
Receivers == {1, 2, 3}
\* ReceiverInfo::pPort->getComponent()
PortComponent(r) == IF r = 3 THEN 2 ELSE 1
\* a port constructed without a mutex (the default argument of PushConsumerCore)
pMutex_Null(r) == 0
\* ReceiverInfo::pMutex: every port class passes &rParent.getMutex(); 0 is no mutex
pMutex(r) == PortComponent(r)

\* threads: the queue's worker thread and the threads of the application
Worker == "worker"
Clients == {"c1", "c2"}
Threads == {Worker} \cup Clients
NoThread == "none"

\* what a handler (an opaque boost::function) may do when it is called
Outcomes == {"return", "UtilException", "stdException", "unknown"}

VARIABLES
    m_State,            \* EventQueue::m_State
    m_Queue,            \* EventQueue::m_Queue, a sequence of event ids
    ev,                 \* the QueueData objects created so far: id -> [pReceiverInfo, priority]
    nQueuedEvents,      \* ReceiverInfo::nQueuedEvents of each receiver
    nMaxQueueLength,    \* ReceiverInfo::nMaxQueueLength of each receiver
    mutexOwner,         \* Component::m_componentMutex of each component: the owning thread
    wpc,                \* position of the worker thread in threadFunction()
    wcur,               \* dispatchEvent/pReceiverInfo of the worker: the event taken, 0 if none
    cpc,                \* position of each application thread
    ccur,               \* dispatchEvent/pReceiverInfo of a thread in dispatchNow()
    pullComp,           \* supplier component of a thread in PullConsumerCore::get()
    fate,               \* history: what happened to each event
    handled,            \* history: the handler invocations in order, <<id, thread>>
    quiesced,           \* history: a stop() has returned and start()/~EventQueue() was not called since
    deferred,           \* history: events passed to queue() while quiesced
    calls,              \* history: number of queue() calls made
    stopFoundHandler    \* history: a stop() call since the last start() found the worker with an event in hand

vars == << m_State, m_Queue, ev, nQueuedEvents, nMaxQueueLength, mutexOwner,
           wpc, wcur, cpc, ccur, pullComp, fate, handled, quiesced, deferred, calls,
           stopFoundHandler >>

---------------------------------------------------------------------------
(* State of the dataflow network (DataflowNetwork.h lines 451-459) *)

VARIABLES
    m_componentIDMap,   \* DataflowNetwork::m_componentIDMap: the names of the registered components
    eventPriority,      \* Component::m_eventPriority of each registered component
    m_allConnections,   \* DataflowNetwork::m_allConnections
    m_inConnectionMap,  \* DataflowNetwork::m_inConnectionMap: component name -> connections
    m_outConnectionMap, \* DataflowNetwork::m_outConnectionMap: component name -> connections
    aep                 \* locals of a running assignEventPriorities(): [pc, it, search, visiting]

dfnVars == << m_componentIDMap, eventPriority, m_allConnections, m_inConnectionMap,
              m_outConnectionMap, aep >>

VARIABLES
    tc,                 \* one TriggerComponent with the ports of its trigger group 0
    ports,              \* the connection state of the ports of the network's components
    pm,                 \* Pattern::checkPattern: the pattern, the SRG and the matchings
    mgr                 \* UTQLSRGManager: the world SRG and the subgraph repository

VARIABLES
    graph,              \* one Graph object: its maps, its nodes' edge lists, the edge objects
    srv,                \* UTQLServer: the announcement repository and the clients' running sets
    tcp                 \* one TcpConnection with the peer's byte stream

moreVars == << graph, srv, tcp >>

\* the variables that the event queue does not touch
otherVars == << dfnVars, tc, ports, pm, mgr, moreVars >>

allVars == << vars, otherVars >>

\* assignEventPriorities() is not running
aepIdle == [pc |-> "idle", it |-> 0, search |-> <<>>, visiting |-> {}]

\* DataflowNetwork::DataflowNetwork(): no components, no connections
NetworkConstructed ==
    /\ m_componentIDMap = {}
    /\ eventPriority = <<>>
    /\ m_allConnections = {}
    /\ m_inConnectionMap = <<>>
    /\ m_outConnectionMap = <<>>
    /\ aep = aepIdle

\* the parts of the runtime that a specification does not exercise hold no objects
NoTrigger == tc = <<>>
NoPorts == ports = <<>>
NoMatcher == pm = <<>>
NoManager == mgr = <<>>
NoGraph == graph = <<>>
NoServer == srv = <<>>
NoTcp == tcp = <<>>

---------------------------------------------------------------------------
(* Helpers *)

Range(s) == { s[i] : i \in 1..Len(s) }

\* the receiver of a queued event and its component (0 if it has none)
RcvOf(E, id) == E[id].pReceiverInfo
CompOf(E, id) == IF RcvOf(E, id) = NoReceiver THEN 0 ELSE PortComponent(RcvOf(E, id))
\* the mutex that is locked around the handler of an event (0 if there is none)
MutexOf(E, id) == IF RcvOf(E, id) = NoReceiver THEN 0 ELSE pMutex(RcvOf(E, id))

\* number of events of q whose receiver is r
RECURSIVE CountIn(_, _, _)
CountIn(q, E, r) ==
    IF q = <<>> THEN 0
    ELSE (IF RcvOf(E, Head(q)) = r THEN 1 ELSE 0) + CountIn(Tail(q), E, r)

---------------------------------------------------------------------------
(* EventQueue::queue: sorting one event into the queue (lines 142-156) *)

\* push_back() for every event, without the search for its place
SortIntoQueue_PushBack(q, id, E) == Append(q, id)

SortIntoQueue(q, id, E) ==
    IF q = <<>>
    THEN << id >>
    ELSE IF E[q[Len(q)]].priority <= E[id].priority
         THEN Append(q, id)
         ELSE LET k == CHOOSE k \in 1..Len(q) :
                          /\ ~ (E[q[k]].priority < E[id].priority)
                          /\ \A j \in 1..(k-1) : E[q[j]].priority < E[id].priority
              IN SubSeq(q, 1, k-1) \o << id >> \o SubSeq(q, k, Len(q))

\* the for loop of queue(): every event of the vector, in order (lines 136-160)
RECURSIVE InsertAll(_, _, _, _)
InsertAll(q, n, ids, E) ==
    IF ids = <<>>
    THEN [q |-> q, n |-> n]
    ELSE LET id == Head(ids)
             r == RcvOf(E, id)
         IN InsertAll(SortIntoQueue(q, id, E),
                      IF r # NoReceiver THEN [n EXCEPT ![r] = @ + 1] ELSE n,
                      Tail(ids), E)

\* the cap test without the test for an unlimited queue
ExceedsCap_NoSign(r, n, maxLen) ==
    /\ r # NoReceiver
    /\ n[r] > maxLen[r]

\* the condition under which the event at the head is dropped
\* (lines 166-167, 256-257 and 341-342)
ExceedsCap(r, n, maxLen) ==
    /\ r # NoReceiver
    /\ maxLen[r] > 0
    /\ n[r] > maxLen[r]

\* the while loop of queue() that drops head events (lines 165-192)
RECURSIVE DropHead(_, _, _, _, _)
DropHead(q, n, E, maxLen, dropped) ==
    IF q # <<>> /\ ExceedsCap(RcvOf(E, Head(q)), n, maxLen)
    THEN DropHead(Tail(q), [n EXCEPT ![RcvOf(E, Head(q))] = @ - 1], E, maxLen,
                  dropped \cup {Head(q)})
    ELSE [q |-> q, n |-> n, dropped |-> dropped]

\* the loop with an iterator that is advanced after erase() as well
RECURSIVE EraseComponent_SkipNext(_, _, _, _)
EraseComponent_SkipNext(q, n, E, c) ==
    IF q = <<>>
    THEN [q |-> <<>>, n |-> n]
    ELSE LET r == RcvOf(E, Head(q))
         IN IF r # NoReceiver /\ PortComponent(r) = c
            THEN IF Tail(q) = <<>>
                 THEN [q |-> <<>>, n |-> [n EXCEPT ![r] = @ - 1]]
                 ELSE LET rest == EraseComponent_SkipNext(Tail(Tail(q)), [n EXCEPT ![r] = @ - 1], E, c)
                      IN [q |-> << Head(Tail(q)) >> \o rest.q, n |-> rest.n]
            ELSE LET rest == EraseComponent_SkipNext(Tail(q), n, E, c)
                 IN [q |-> << Head(q) >> \o rest.q, n |-> rest.n]

\* the loop of removeComponent() (lines 207-214): erases the events routed to a
\* port of component c and decrements the counter of their receiver
RECURSIVE EraseComponent(_, _, _, _)
EraseComponent(q, n, E, c) ==
    IF q = <<>>
    THEN [q |-> <<>>, n |-> n]
    ELSE LET r == RcvOf(E, Head(q))
         IN IF r # NoReceiver /\ PortComponent(r) = c
            THEN EraseComponent(Tail(q), [n EXCEPT ![r] = @ - 1], E, c)
            ELSE LET rest == EraseComponent(Tail(q), n, E, c)
                 IN [q |-> << Head(q) >> \o rest.q, n |-> rest.n]

\* clear() without the loop over the queued events
DecrementAll_Skip(q, n, E) == n

\* the loop of clear() (lines 225-227): decrements the counter of every queued event
RECURSIVE DecrementAll(_, _, _)
DecrementAll(q, n, E) ==
    IF q = <<>> THEN n
    ELSE LET r == RcvOf(E, Head(q))
         IN DecrementAll(Tail(q), IF r # NoReceiver THEN [n EXCEPT ![r] = @ - 1] ELSE n, E)

\* a notify_all() that the worker thread does not get
NotifyWorker_Lost(pc) == pc

\* m_NewEventCondition.notify_all(): every thread waiting in wait() wakes up
NotifyWorker(pc) == IF pc = "wait" THEN "loop" ELSE pc
NotifyClients(pcs) == [t \in Clients |-> IF pcs[t] = "stop_wait" THEN "stop_woken" ELSE pcs[t]]

\* the object exists until ~EventQueue() has returned, and the process runs
\* until the worker thread has crashed
Alive == wpc # "crashed" /\ \A t \in Clients : cpc[t] # "destroyed"

---------------------------------------------------------------------------
(* Initial state: the queue after EventQueue::EventQueue() *)

\* the caps of the ports as the port classes construct them: the cap is taken
\* from EventTypeTraits (PushConsumer.h line 64); receiver 2 receives Button events
PortCaps == [r \in Receivers |-> IF r = 2 THEN ButtonMaxQueueLength ELSE g_defaultMaxQueueLength]

\* the same, with receiver 1 constructed with any finite cap
\* (EventQueue.h line 70: ReceiverInfo takes the cap as an argument)
CapAssignments == { [PortCaps EXCEPT ![1] = k] : k \in 0..MaxCap }

Constructed ==
    /\ m_State = state_stopped
    /\ m_Queue = <<>>
    /\ ev = <<>>
    /\ nQueuedEvents = [r \in Receivers |-> 0]
    /\ mutexOwner = [c \in Components |-> NoThread]
    /\ wpc = "loop"
    /\ wcur = 0
    /\ cpc = [t \in Clients |-> "idle"]
    /\ ccur = [t \in Clients |-> 0]
    /\ pullComp = [t \in Clients |-> 0]
    /\ fate = <<>>
    /\ handled = <<>>
    /\ quiesced = FALSE
    /\ deferred = {}
    /\ calls = 0
    /\ stopFoundHandler = FALSE

\* ports as the port classes construct them
Init ==
    /\ Constructed /\ nMaxQueueLength = PortCaps /\ NetworkConstructed
    /\ NoTrigger /\ NoPorts /\ NoMatcher /\ NoManager
    /\ NoGraph /\ NoServer /\ NoTcp

\* receivers constructed with any cap
InitQueue ==
    /\ Constructed /\ nMaxQueueLength \in CapAssignments /\ NetworkConstructed
    /\ NoTrigger /\ NoPorts /\ NoMatcher /\ NoManager
    /\ NoGraph /\ NoServer /\ NoTcp

---------------------------------------------------------------------------
(* EventQueue::start (lines 96-104) *)

start ==
    /\ Alive
    /\ m_State' = state_running
    /\ wpc' = NotifyWorker(wpc)
    /\ cpc' = NotifyClients(cpc)
    /\ quiesced' = FALSE
    /\ deferred' = {}
    /\ stopFoundHandler' = FALSE
    /\ UNCHANGED << m_Queue, ev, nQueuedEvents, nMaxQueueLength, mutexOwner,
                    wcur, ccur, pullComp, fate, handled, calls, otherVars >>

(* EventQueue::stop (lines 107-124) *)

\* a stop() that tells the thread to stop and returns without waiting
stop_call_nowait(t) ==
    /\ Alive
    /\ cpc[t] = "idle"
    /\ IF m_State # state_stopped
       THEN /\ m_State' = state_stopping
            /\ wpc' = NotifyWorker(wpc)
            /\ cpc' = NotifyClients(cpc)
       ELSE UNCHANGED << m_State, wpc, cpc >>
    /\ quiesced' = TRUE
    /\ stopFoundHandler' = (stopFoundHandler \/ wpc \in {"dispatch", "handler"})
    /\ UNCHANGED << m_Queue, ev, nQueuedEvents, nMaxQueueLength, mutexOwner,
                    wcur, ccur, pullComp, fate, handled, deferred, calls, otherVars >>

\* the call up to the first wait(), or up to the return if already stopped
stop_call(t) ==
    /\ Alive
    /\ cpc[t] = "idle"
    /\ IF m_State # state_stopped
       THEN /\ m_State' = state_stopping
            /\ wpc' = NotifyWorker(wpc)
            /\ cpc' = [NotifyClients(cpc) EXCEPT ![t] = "stop_wait"]
            /\ UNCHANGED quiesced
       ELSE /\ quiesced' = TRUE
            /\ UNCHANGED << m_State, wpc, cpc >>
    /\ stopFoundHandler' = (stopFoundHandler \/ wpc \in {"dispatch", "handler"})
    /\ UNCHANGED << m_Queue, ev, nQueuedEvents, nMaxQueueLength, mutexOwner,
                    wcur, ccur, pullComp, fate, handled, deferred, calls, otherVars >>

\* wait() has returned: the loop condition of line 119 is tested again
stop_woken(t) ==
    /\ Alive
    /\ cpc[t] = "stop_woken"
    /\ IF m_State # state_stopped
       THEN /\ cpc' = [cpc EXCEPT ![t] = "stop_wait"]
            /\ UNCHANGED quiesced
       ELSE /\ cpc' = [cpc EXCEPT ![t] = "idle"]
            /\ quiesced' = TRUE
    /\ UNCHANGED << m_State, m_Queue, ev, nQueuedEvents, nMaxQueueLength, mutexOwner,
                    wpc, wcur, ccur, pullComp, fate, handled, deferred, calls,
                    stopFoundHandler, otherVars >>

(* EventQueue::queue (lines 127-197) *)

\* the vectors of n QueueData a caller may pass
Batches(n) == [1..n -> [pReceiverInfo : Receivers \cup {NoReceiver}, priority : 1..MaxPrio]]

queue(events) ==
    /\ Alive
    /\ LET ids == [i \in 1..Len(events) |-> Len(ev) + i]
           E == ev \o events
           ins == InsertAll(m_Queue, nQueuedEvents, ids, E)
           res == DropHead(ins.q, ins.n, E, nMaxQueueLength, {})
       IN /\ ev' = E
          /\ m_Queue' = res.q
          /\ nQueuedEvents' = res.n
          /\ fate' = [i \in 1..Len(E) |->
                        IF i \in res.dropped THEN "dropped"
                        ELSE IF i <= Len(ev) THEN fate[i] ELSE "queued"]
          /\ deferred' = IF quiesced THEN deferred \cup Range(ids) ELSE deferred
          /\ calls' = calls + 1
    /\ IF m_State = state_running
       THEN /\ wpc' = NotifyWorker(wpc)
            /\ cpc' = NotifyClients(cpc)
       ELSE UNCHANGED << wpc, cpc >>
    /\ UNCHANGED << m_State, nMaxQueueLength, mutexOwner, wcur, ccur, pullComp,
                    handled, quiesced, stopFoundHandler, otherVars >>

(* EventQueue::removeComponent (lines 200-215) *)

removeComponent(c) ==
    /\ Alive
    /\ LET res == EraseComponent(m_Queue, nQueuedEvents, ev, c)
       IN /\ m_Queue' = res.q
          /\ nQueuedEvents' = res.n
    /\ fate' = [i \in 1..Len(ev) |->
                  IF i \in Range(m_Queue) /\ i \notin Range(m_Queue') THEN "removed" ELSE fate[i]]
    /\ UNCHANGED << m_State, ev, nMaxQueueLength, mutexOwner, wpc, wcur, cpc, ccur,
                    pullComp, handled, quiesced, stopFoundHandler, otherVars, deferred, calls >>

(* EventQueue::clear (lines 218-233) *)

clear ==
    /\ Alive
    /\ m_Queue' = <<>>
    /\ nQueuedEvents' = DecrementAll(m_Queue, nQueuedEvents, ev)
    /\ fate' = [i \in 1..Len(ev) |-> IF i \in Range(m_Queue) THEN "cleared" ELSE fate[i]]
    /\ UNCHANGED << m_State, ev, nMaxQueueLength, mutexOwner, wpc, wcur, cpc, ccur,
                    pullComp, handled, quiesced, stopFoundHandler, otherVars, deferred, calls >>

---------------------------------------------------------------------------
(* EventQueue::threadFunction (lines 321-424) *)

\* lines 335-372: the state is running and the queue is not empty; the head is
\* dropped if its receiver exceeds its cap and taken for dispatch otherwise
WorkerMayDispatch_AnyState == m_Queue # <<>>

WorkerMayDispatch == m_State = state_running /\ m_Queue # <<>>

worker_take ==
    /\ Alive
    /\ wpc = "loop"
    /\ WorkerMayDispatch
    /\ LET id == Head(m_Queue)
           r == RcvOf(ev, id)
       IN /\ IF ExceedsCap(r, nQueuedEvents, nMaxQueueLength)
             THEN /\ fate' = [fate EXCEPT ![id] = "dropped"]
                  /\ UNCHANGED << wpc, wcur >>
             ELSE /\ fate' = [fate EXCEPT ![id] = "taken"]
                  /\ wcur' = id
                  /\ wpc' = "dispatch"
          /\ nQueuedEvents' = IF r # NoReceiver
                              THEN [nQueuedEvents EXCEPT ![r] = @ - 1]
                              ELSE nQueuedEvents
          /\ m_Queue' = Tail(m_Queue)
    /\ UNCHANGED << m_State, ev, nMaxQueueLength, mutexOwner, cpc, ccur, pullComp,
                    handled, quiesced, stopFoundHandler, otherVars, deferred, calls >>

\* lines 373-378: the thread ends
worker_end ==
    /\ Alive
    /\ wpc = "loop"
    /\ ~ WorkerMayDispatch
    /\ m_State = state_end
    /\ wpc' = "ended"
    /\ UNCHANGED << m_State, m_Queue, ev, nQueuedEvents, nMaxQueueLength, mutexOwner,
                    wcur, cpc, ccur, pullComp, fate, handled, quiesced, stopFoundHandler, otherVars, deferred, calls >>

\* lines 379-387: the thread confirms the stop
worker_stopped ==
    /\ Alive
    /\ wpc = "loop"
    /\ ~ WorkerMayDispatch
    /\ m_State = state_stopping
    /\ m_State' = state_stopped
    /\ cpc' = NotifyClients(cpc)
    /\ UNCHANGED << m_Queue, ev, nQueuedEvents, nMaxQueueLength, mutexOwner,
                    wpc, wcur, ccur, pullComp, fate, handled, quiesced, stopFoundHandler, otherVars, deferred, calls >>

\* lines 388-392: nothing to do, wait on m_NewEventCondition
worker_wait ==
    /\ Alive
    /\ wpc = "loop"
    /\ ~ WorkerMayDispatch
    /\ m_State \notin {state_end, state_stopping}
    /\ wpc' = "wait"
    /\ UNCHANGED << m_State, m_Queue, ev, nQueuedEvents, nMaxQueueLength, mutexOwner,
                    wcur, cpc, ccur, pullComp, fate, handled, quiesced, stopFoundHandler, otherVars, deferred, calls >>

\* the mutex of the receiver of event id can be locked by thread t, or there is none
\* (lines 400-408 and 294-302; the mutex is recursive)
CanLock(t, c) == IF c = 0 THEN TRUE ELSE mutexOwner[c] \in {NoThread, t}

Locked(t, c) == IF c = 0 THEN mutexOwner ELSE [mutexOwner EXCEPT ![c] = t]

Unlocked(c) == IF c = 0 THEN mutexOwner ELSE [mutexOwner EXCEPT ![c] = NoThread]

\* lines 396-408: lock the receiver's mutex and call the handler
worker_invoke ==
    /\ Alive
    /\ wpc = "dispatch"
    /\ CanLock(Worker, MutexOf(ev, wcur))
    /\ mutexOwner' = Locked(Worker, MutexOf(ev, wcur))
    /\ wpc' = "handler"
    /\ fate' = [fate EXCEPT ![wcur] = "invoked"]
    /\ handled' = Append(handled, << wcur, Worker >>)
    /\ UNCHANGED << m_State, m_Queue, ev, nQueuedEvents, nMaxQueueLength,
                    wcur, cpc, ccur, pullComp, quiesced, stopFoundHandler, otherVars, deferred, calls >>

\* where the worker continues after the handler of event id has ended with
\* outcome o (lines 410-421): the handlers for std::exception and for (...)
\* evaluate pReceiverInfo->pPort->fullName() in their log statement, which
\* dereferences a null pointer if the event has no receiver info
AfterHandler(id, o) ==
    IF o \in {"stdException", "unknown"} /\ RcvOf(ev, id) = NoReceiver
    THEN {"loop", "crashed"}
    ELSE {"loop"}

\* the handler returns or throws; the scoped lock is released
worker_handled(o) ==
    /\ Alive
    /\ wpc = "handler"
    /\ mutexOwner' = Unlocked(MutexOf(ev, wcur))
    /\ wpc' \in AfterHandler(wcur, o)
    /\ wcur' = 0
    /\ UNCHANGED << m_State, m_Queue, ev, nQueuedEvents, nMaxQueueLength,
                    cpc, ccur, pullComp, fate, handled, quiesced, stopFoundHandler, otherVars, deferred, calls >>

\* wait() may return without a notification
spurious_wakeup ==
    /\ Alive
    /\ \/ /\ wpc = "wait"
          /\ wpc' = "loop"
          /\ UNCHANGED cpc
       \/ /\ \E t \in Clients :
                /\ cpc[t] = "stop_wait"
                /\ cpc' = [cpc EXCEPT ![t] = "stop_woken"]
          /\ UNCHANGED wpc
    /\ UNCHANGED << m_State, m_Queue, ev, nQueuedEvents, nMaxQueueLength, mutexOwner,
                    wcur, ccur, pullComp, fate, handled, quiesced, stopFoundHandler, otherVars, deferred, calls >>

---------------------------------------------------------------------------
(* EventQueue::dispatchNow (lines 237-318), called by thread t *)

\* lines 245-287: one pass through the locked block with a non-empty queue
dispatchNow_take(t) ==
    /\ Alive
    /\ cpc[t] \in {"idle", "dn_loop"}
    /\ m_Queue # <<>>
    /\ LET id == Head(m_Queue)
           r == RcvOf(ev, id)
       IN /\ IF ExceedsCap(r, nQueuedEvents, nMaxQueueLength)
             THEN /\ fate' = [fate EXCEPT ![id] = "dropped"]
                  /\ cpc' = [cpc EXCEPT ![t] = "dn_loop"]
                  /\ UNCHANGED ccur
             ELSE /\ fate' = [fate EXCEPT ![id] = "taken"]
                  /\ ccur' = [ccur EXCEPT ![t] = id]
                  /\ cpc' = [cpc EXCEPT ![t] = "dn_dispatch"]
          /\ nQueuedEvents' = IF r # NoReceiver
                              THEN [nQueuedEvents EXCEPT ![r] = @ - 1]
                              ELSE nQueuedEvents
          /\ m_Queue' = Tail(m_Queue)
    /\ UNCHANGED << m_State, ev, nMaxQueueLength, mutexOwner, wpc, wcur, pullComp,
                    handled, quiesced, stopFoundHandler, otherVars, deferred, calls >>

\* lines 249-250: the queue is empty, dispatchNow() returns
dispatchNow_return(t) ==
    /\ Alive
    /\ cpc[t] = "dn_loop"
    /\ m_Queue = <<>>
    /\ cpc' = [cpc EXCEPT ![t] = "idle"]
    /\ UNCHANGED << m_State, m_Queue, ev, nQueuedEvents, nMaxQueueLength, mutexOwner,
                    wpc, wcur, ccur, pullComp, fate, handled, quiesced, stopFoundHandler, otherVars, deferred, calls >>

\* lines 290-302: lock the receiver's mutex and call the handler
dispatchNow_invoke(t) ==
    /\ Alive
    /\ cpc[t] = "dn_dispatch"
    /\ CanLock(t, MutexOf(ev, ccur[t]))
    /\ mutexOwner' = Locked(t, MutexOf(ev, ccur[t]))
    /\ cpc' = [cpc EXCEPT ![t] = "dn_handler"]
    /\ fate' = [fate EXCEPT ![ccur[t]] = "invoked"]
    /\ handled' = Append(handled, << ccur[t], t >>)
    /\ UNCHANGED << m_State, m_Queue, ev, nQueuedEvents, nMaxQueueLength,
                    wpc, wcur, ccur, pullComp, quiesced, stopFoundHandler, otherVars, deferred, calls >>

\* lines 304-315: the handler returns or throws; every exception is caught and logged
dispatchNow_handled(t, o) ==
    /\ Alive
    /\ cpc[t] = "dn_handler"
    /\ mutexOwner' = Unlocked(MutexOf(ev, ccur[t]))
    /\ cpc' = [cpc EXCEPT ![t] = "dn_loop"]
    /\ ccur' = [ccur EXCEPT ![t] = 0]
    /\ UNCHANGED << m_State, m_Queue, ev, nQueuedEvents, nMaxQueueLength,
                    wpc, wcur, pullComp, fate, handled, quiesced, stopFoundHandler, otherVars, deferred, calls >>

(* PullConsumerCore::get (PullConsumer.h lines 67-81), called by thread t on a
   port connected to a supplier port of component c *)

\* line 76: the supplier component's mutex is locked, the supplier function runs
pull_call(t, c) ==
    /\ Alive
    /\ cpc[t] = "idle"
    /\ CanLock(t, c)
    /\ mutexOwner' = Locked(t, c)
    /\ cpc' = [cpc EXCEPT ![t] = "pull"]
    /\ pullComp' = [pullComp EXCEPT ![t] = c]
    /\ UNCHANGED << m_State, m_Queue, ev, nQueuedEvents, nMaxQueueLength,
                    wpc, wcur, ccur, fate, handled, quiesced, stopFoundHandler, otherVars, deferred, calls >>

\* line 77: the supplier function has returned or thrown, the lock is released
pull_return(t) ==
    /\ Alive
    /\ cpc[t] = "pull"
    /\ mutexOwner' = Unlocked(pullComp[t])
    /\ cpc' = [cpc EXCEPT ![t] = "idle"]
    /\ pullComp' = [pullComp EXCEPT ![t] = 0]
    /\ UNCHANGED << m_State, m_Queue, ev, nQueuedEvents, nMaxQueueLength,
                    wpc, wcur, ccur, fate, handled, quiesced, stopFoundHandler, otherVars, deferred, calls >>

(* EventQueue::~EventQueue (lines 80-93), called by thread t *)

\* lines 84-88: tell the thread to quit
destroy_call(t) ==
    /\ Alive
    /\ cpc[t] = "idle"
    /\ \A u \in Clients : cpc[u] # "join"
    /\ m_State' = state_end
    /\ wpc' = NotifyWorker(wpc)
    /\ cpc' = [NotifyClients(cpc) EXCEPT ![t] = "join"]
    /\ quiesced' = FALSE
    /\ UNCHANGED << m_Queue, ev, nQueuedEvents, nMaxQueueLength, mutexOwner,
                    wcur, ccur, pullComp, fate, handled, deferred, calls,
                    stopFoundHandler, otherVars >>

\* line 91: join() returns when the thread has ended
destroy_joined(t) ==
    /\ Alive
    /\ cpc[t] = "join"
    /\ wpc = "ended"
    /\ cpc' = [cpc EXCEPT ![t] = "destroyed"]
    /\ UNCHANGED << m_State, m_Queue, ev, nQueuedEvents, nMaxQueueLength, mutexOwner,
                    wpc, wcur, ccur, pullComp, fate, handled, quiesced, stopFoundHandler, otherVars, deferred, calls >>

---------------------------------------------------------------------------
(* The specifications *)

\* Queue contents: the queue is filled with arbitrary batches and driven by one
\* thread that calls dispatchNow(); the worker thread is not started
Driver == "c1"

NextQueue ==
    \/ \E n \in 1..MaxBatch :
          /\ Len(ev) + n <= MaxEvents
          /\ \E events \in Batches(n) : queue(events)
    \/ \E c \in Components : removeComponent(c)
    \/ clear
    \/ dispatchNow_take(Driver)
    \/ dispatchNow_return(Driver)
    \/ dispatchNow_invoke(Driver)
    \/ \E o \in Outcomes : dispatchNow_handled(Driver, o)

SpecQueue == InitQueue /\ [][NextQueue]_vars

\* events posted one at a time, as PushSupplierCore::send() does for a port
\* with one consumer
Singles == { << [pReceiverInfo |-> r, priority |-> 1] >> : r \in Receivers \cup {NoReceiver} }

\* Life cycle: start(), stop() and the destructor called by two application
\* threads while the worker thread dispatches
NextLife ==
    \/ start
    \/ \E t \in Clients : stop_call(t)
    \/ \E t \in Clients : stop_woken(t)
    \/ \E events \in Singles : Len(ev) < MaxPosted /\ queue(events)
    \/ \E c \in Components : removeComponent(c)
    \/ clear
    \/ worker_take
    \/ worker_end
    \/ worker_stopped
    \/ worker_wait
    \/ worker_invoke
    \/ \E o \in Outcomes : worker_handled(o)
    \/ spurious_wakeup
    \/ \E t \in Clients : destroy_call(t)
    \/ \E t \in Clients : destroy_joined(t)

SpecLife == Init /\ [][NextLife]_vars

\* Locking: the worker thread, threads in dispatchNow() and threads that pull
\* compete for the component mutexes
NextLock ==
    \/ start
    \/ \E events \in Singles : Len(ev) < MaxPosted /\ queue(events)
    \/ \E c \in Components : removeComponent(c)
    \/ clear
    \/ worker_take
    \/ worker_wait
    \/ worker_invoke
    \/ \E o \in Outcomes : worker_handled(o)
    \/ \E t \in Clients : dispatchNow_take(t)
    \/ \E t \in Clients : dispatchNow_return(t)
    \/ \E t \in Clients : dispatchNow_invoke(t)
    \/ \E t \in Clients, o \in Outcomes : dispatchNow_handled(t, o)
    \/ \E t \in Clients, c \in Components : pull_call(t, c)
    \/ \E t \in Clients : pull_return(t)

SpecLock == Init /\ [][NextLock]_vars

TypeOK ==
    /\ m_State \in {state_running, state_stopping, state_stopped, state_end}
    /\ \A k \in 1..Len(m_Queue) : m_Queue[k] \in 1..Len(ev)
    /\ Len(fate) = Len(ev)
    /\ wpc \in {"loop", "wait", "dispatch", "handler", "ended", "crashed"}
    /\ \A t \in Clients : cpc[t] \in {"idle", "stop_wait", "stop_woken", "dn_loop",
                                      "dn_dispatch", "dn_handler", "pull", "join", "destroyed"}

---------------------------------------------------------------------------
(* The dataflow network: DataflowNetwork.cpp *)

\* #define DFN_MAX_PATHLENGTH 255
DFN_MAX_PATHLENGTH == 255

\* DataflowNetworkSide and DataflowNetworkConnection
Side(c, p) == [m_componentName |-> c, m_portName |-> p]
Connection(s, d) == [m_source |-> s, m_destination |-> d]
SourceOf(x) == x.m_source.m_componentName
DestinationOf(x) == x.m_destination.m_componentName

\* the connection that connectComponents( u, "Output", v, "Input" ) records
Edge(u, v) == Connection(Side(u, "Output"), Side(v, "Input"))

\* m_inConnectionMap and m_outConnectionMap as connectComponents() fills them
\* for the connections A between the components N (lines 284-286)
InMap(N, A) == [c \in N |-> {x \in A : DestinationOf(x) = c}]
OutMap(N, A) == [c \in N |-> {x \in A : SourceOf(x) = c}]

\* the networks of k components with any connections between them (cycles and
\* self connections included), and one long chain
SmallNetworks(k) ==
    { [n |-> 1..k, e |-> {Edge(x[1], x[2]) : x \in E}] : E \in SUBSET ((1..k) \X (1..k)) }
ChainNetwork == [n |-> 1..MaxChain, e |-> {Edge(i, i + 1) : i \in 1..(MaxChain - 1)}]

\* a network that was built by createComponent() and connectComponents()
\* (Component::Component sets m_eventPriority to 0, Component.cpp line 48)
NetworkBuilt(net) ==
    /\ m_componentIDMap = net.n
    /\ eventPriority = [c \in net.n |-> 0]
    /\ m_allConnections = net.e
    /\ m_inConnectionMap = InMap(net.n, net.e)
    /\ m_outConnectionMap = OutMap(net.n, net.e)
    /\ aep = aepIdle

InitPrio ==
    /\ Constructed
    /\ nMaxQueueLength = PortCaps
    /\ \E net \in UNION { SmallNetworks(k) : k \in 1..MaxComponents } \cup {ChainNetwork} :
           NetworkBuilt(net)
    /\ NoTrigger /\ NoPorts /\ NoMatcher /\ NoManager
    /\ NoGraph /\ NoServer /\ NoTcp

(* DataflowNetwork::assignEventPriorities (lines 462-527) *)

\* the source components of a ConnectionSet in the order of its iteration
\* (DataflowNetworkConnection::operator< compares the source side first)
RECURSIVE Ancestors(_)
Ancestors(S) ==
    IF S = {} THEN <<>>
    ELSE LET lo == CHOOSE x \in S : \A y \in S : SourceOf(x) <= SourceOf(y)
         IN << SourceOf(lo) >> \o Ancestors(S \ {lo})

AEPSearchInfo(p, c) == [priority |-> p, pComponent |-> c]

\* the successor of a component name in m_componentIDMap, MaxChain + 1 for end()
NextComponent(c) == c + 1

\* lines 469-471: clear all event priorities and begin() of the sink loop
aep_call ==
    /\ aep.pc = "idle"
    /\ eventPriority' = [c \in m_componentIDMap |-> DFN_MAX_PATHLENGTH]
    /\ aep' = [aepIdle EXCEPT !.pc = "sinks", !.it = 1]
    /\ UNCHANGED << vars, moreVars, tc, ports, pm, mgr, m_componentIDMap, m_allConnections, m_inConnectionMap,
                    m_outConnectionMap >>

\* lines 474-483: the next component of the loop; a sink starts a search
aep_sink ==
    /\ aep.pc = "sinks"
    /\ aep.it \in m_componentIDMap
    /\ IF m_outConnectionMap[aep.it] = {}
       THEN aep' = [aep EXCEPT !.pc = "search",
                                !.search = << AEPSearchInfo(DFN_MAX_PATHLENGTH, aep.it) >>,
                                !.visiting = {}]
       ELSE aep' = [aep EXCEPT !.it = NextComponent(aep.it)]
    /\ UNCHANGED << vars, moreVars, tc, ports, pm, mgr, m_componentIDMap, eventPriority, m_allConnections,
                    m_inConnectionMap, m_outConnectionMap >>

\* lines 486-493: a negative priority marks a component to take out of visiting
aep_drop ==
    /\ aep.pc = "search"
    /\ aep.search # <<>>
    /\ aep.search[Len(aep.search)].priority < 0
    /\ aep' = [aep EXCEPT !.visiting = @ \ {aep.search[Len(aep.search)].pComponent},
                          !.search = SubSeq(@, 1, Len(@) - 1)]
    /\ UNCHANGED << vars, moreVars, tc, ports, pm, mgr, m_componentIDMap, eventPriority, m_allConnections,
                    m_inConnectionMap, m_outConnectionMap >>

\* the step without the test of line 515: every ancestor is queued
aep_visit_NoLoopTest ==
    /\ aep.pc = "search"
    /\ aep.search # <<>>
    /\ aep.search[Len(aep.search)].priority >= 0
    /\ LET last == Len(aep.search)
           c == aep.search[last].pComponent
           prio == aep.search[last].priority
           queued == Ancestors(m_inConnectionMap[c])
       IN /\ eventPriority' = IF eventPriority[c] > prio
                              THEN [eventPriority EXCEPT ![c] = prio]
                              ELSE eventPriority
          /\ aep' = [aep EXCEPT !.visiting = @ \cup {c},
                                !.search = [@ EXCEPT ![last].priority = -1] \o
                                           [k \in 1..Len(queued) |-> AEPSearchInfo(prio - 1, queued[k])]]
    /\ UNCHANGED << vars, moreVars, tc, ports, pm, mgr, m_componentIDMap, m_allConnections, m_inConnectionMap,
                    m_outConnectionMap >>

\* lines 494-519: set the priority, mark the entry and push the ancestors
aep_visit ==
    /\ aep.pc = "search"
    /\ aep.search # <<>>
    /\ aep.search[Len(aep.search)].priority >= 0
    /\ LET last == Len(aep.search)
           c == aep.search[last].pComponent
           prio == aep.search[last].priority
           visiting == aep.visiting \cup {c}
           queued == SelectSeq(Ancestors(m_inConnectionMap[c]), LAMBDA u : u \notin visiting)
       IN /\ eventPriority' = IF eventPriority[c] > prio
                              THEN [eventPriority EXCEPT ![c] = prio]
                              ELSE eventPriority
          /\ aep' = [aep EXCEPT !.visiting = visiting,
                                !.search = [@ EXCEPT ![last].priority = -1] \o
                                           [k \in 1..Len(queued) |-> AEPSearchInfo(prio - 1, queued[k])]]
    /\ UNCHANGED << vars, moreVars, tc, ports, pm, mgr, m_componentIDMap, m_allConnections, m_inConnectionMap,
                    m_outConnectionMap >>

\* line 484: the search of this sink is over, the sink loop goes on
aep_searched ==
    /\ aep.pc = "search"
    /\ aep.search = <<>>
    /\ aep' = [aep EXCEPT !.pc = "sinks", !.it = NextComponent(aep.it)]
    /\ UNCHANGED << vars, moreVars, tc, ports, pm, mgr, m_componentIDMap, eventPriority, m_allConnections,
                    m_inConnectionMap, m_outConnectionMap >>

\* the sink loop has reached end(): assignEventPriorities() returns
aep_return ==
    /\ aep.pc = "sinks"
    /\ aep.it \notin m_componentIDMap
    /\ aep' = [aep EXCEPT !.pc = "done"]
    /\ UNCHANGED << vars, moreVars, tc, ports, pm, mgr, m_componentIDMap, eventPriority, m_allConnections,
                    m_inConnectionMap, m_outConnectionMap >>

NextPrio ==
    \/ aep_call
    \/ aep_sink
    \/ aep_drop
    \/ aep_visit
    \/ aep_searched
    \/ aep_return

SpecPrio == InitPrio /\ [][NextPrio]_allVars

\* Component::setEventPriority (Component.h lines 130-131), called by any
\* client of the component while assignEventPriorities() is not running
setEventPriority(c, priority) ==
    /\ aep.pc \in {"idle", "done"}
    /\ c \in m_componentIDMap
    /\ eventPriority' = [eventPriority EXCEPT ![c] = priority]
    /\ UNCHANGED << vars, moreVars, tc, ports, pm, mgr, m_componentIDMap, m_allConnections,
                    m_inConnectionMap, m_outConnectionMap, aep >>

\* the values that a client writes: the ends of the range and their neighbours
PriorityWrites == {-1, 0, DFN_MAX_PATHLENGTH, DFN_MAX_PATHLENGTH + 1}

InitAttr ==
    /\ Constructed
    /\ nMaxQueueLength = PortCaps
    /\ \E net \in UNION { SmallNetworks(k) : k \in 1..(MaxComponents - 1) } : NetworkBuilt(net)
    /\ NoTrigger /\ NoPorts /\ NoMatcher /\ NoManager
    /\ NoGraph /\ NoServer /\ NoTcp

NextAttr ==
    \/ NextPrio
    \/ \E c \in 1..MaxComponents, priority \in PriorityWrites : setEventPriority(c, priority)

SpecAttr == InitAttr /\ [][NextAttr]_allVars

---------------------------------------------------------------------------
(* Triggered components: TriggerComponent.{h,cpp}, TriggerInPort.h,        *)
(* TriggerOutPort.h                                                        *)

\* the timestamps of the measurements that are pushed, pulled and requested
Times == {0} \cup {100 + k : k \in 0..MaxStamp}

\* what the supplier of a pull port does when it is pulled: it returns a
\* measurement with some timestamp or it throws
Returns(t) == [ok |-> TRUE, t |-> t]
Throws == [ok |-> FALSE, t |-> -1]
PullOutcomes == {Returns(t) : t \in Times} \cup {Throws}

\* a port that was not pulled during the current call
NotPulled == [t |-> -1, ok |-> FALSE]
NoCall == [op |-> "none", t |-> -1, fired |-> FALSE, threw |-> FALSE]

\* the trigger groups that are modelled: isPush() of each port of m_ports
TriggerPortConfigs == UNION { [1..n -> BOOLEAN] : n \in 1..MaxTrigPorts }

\* TriggerComponent::TriggerComponent with the TriggerInPortBase constructors
\* (m_timestamp( 0 ), addTriggerInput) and addTriggerOutput( bPush )
TriggerComponent(cfg, bPush) ==
    [ m_ports |-> cfg,
      m_bPushOutput |-> bPush,
      m_bHasNewPush |-> FALSE,
      m_timestamp |-> [i \in DOMAIN cfg |-> 0],
      received |-> [i \in DOMAIN cfg |-> FALSE],   \* m_measurement was assigned
      pulled |-> [i \in DOMAIN cfg |-> NotPulled], \* pull( t ) calls of the current call
      computed |-> <<>>,                           \* the timestamps of the compute() calls
      pushed |-> <<>>,                             \* the pushes received: << port, time >>
      pullRequests |-> 0,                          \* number of pullRequest() calls
      call |-> NoCall ]                            \* the last call and how it ended

InitTrigger ==
    /\ Constructed /\ nMaxQueueLength = PortCaps /\ NetworkConstructed
    /\ \E cfg \in TriggerPortConfigs, bPush \in BOOLEAN : tc = TriggerComponent(cfg, bPush)
    /\ NoPorts /\ NoMatcher /\ NoManager
    /\ NoGraph /\ NoServer /\ NoTcp

\* TriggerGroup::trigger (TriggerComponent.h lines 240-277) from port i on;
\* po[i] is what the supplier of pull port i does when it is pulled
RECURSIVE trigger(_, _, _, _)
trigger(s, t, po, i) ==
    IF i > Len(s.m_ports) THEN [ok |-> TRUE, s |-> s]
    ELSE IF s.m_ports[i]
    THEN IF s.m_timestamp[i] # t
         THEN [ok |-> FALSE, s |-> s]
         ELSE trigger(s, t, po, i + 1)
    ELSE IF ~ po[i].ok
         THEN [ok |-> FALSE, s |-> [s EXCEPT !.pulled[i] = [t |-> t, ok |-> FALSE]]]
         ELSE trigger([s EXCEPT !.m_timestamp[i] = po[i].t,
                                !.received[i] = TRUE,
                                !.pulled[i] = [t |-> t, ok |-> TRUE]], t, po, i + 1)

\* the component's compute( t )
compute(s, t) == [s EXCEPT !.computed = Append(@, t)]

\* TriggerComponent::triggerIn (TriggerComponent.cpp lines 111-124)
triggerIn(s, i, po) ==
    LET t == s.m_timestamp[i]
        n == [s EXCEPT !.m_bHasNewPush = TRUE]
        r == trigger(n, t, po, 1)
    IN IF ~ s.m_bPushOutput
       THEN [n EXCEPT !.call = [op |-> "push", t |-> t, fired |-> FALSE, threw |-> FALSE]]
       ELSE IF r.ok
       THEN [compute(r.s, t) EXCEPT !.m_bHasNewPush = FALSE,
                 !.call = [op |-> "push", t |-> t, fired |-> TRUE, threw |-> FALSE]]
       ELSE [r.s EXCEPT !.call = [op |-> "push", t |-> t, fired |-> FALSE, threw |-> FALSE]]

\* triggerOut without the UBITRACK_THROW of line 132
triggerOut_Silent(s, t, po) ==
    LET r == trigger(s, t, po, 1)
    IN IF ~ r.ok
       THEN [r.s EXCEPT !.call = [op |-> "pull", t |-> t, fired |-> FALSE, threw |-> FALSE]]
       ELSE [compute(r.s, t) EXCEPT !.m_bHasNewPush = FALSE,
                 !.call = [op |-> "pull", t |-> t, fired |-> TRUE, threw |-> FALSE]]

\* TriggerComponent::triggerOut (TriggerComponent.cpp lines 128-140); the
\* exception leaves TriggerOutPort::pullRequest, which does not catch it
triggerOut(s, t, po) ==
    LET r == trigger(s, t, po, 1)
    IN IF ~ r.ok
       THEN [r.s EXCEPT !.call = [op |-> "pull", t |-> t, fired |-> FALSE, threw |-> TRUE]]
       ELSE [compute(r.s, t) EXCEPT !.m_bHasNewPush = FALSE,
                 !.call = [op |-> "pull", t |-> t, fired |-> TRUE, threw |-> FALSE]]

\* the calls made so far
TrigCalls(s) == Len(s.pushed) + s.pullRequests

\* TriggerInPort::receivePush (TriggerInPort.h lines 127-136): a measurement
\* with timestamp t is pushed into push port i
receivePush(i, t, po) ==
    /\ TrigCalls(tc) < MaxTrigCalls
    /\ i \in DOMAIN tc.m_ports
    /\ tc.m_ports[i]
    /\ tc' = triggerIn([tc EXCEPT !.m_timestamp[i] = t,
                                  !.received[i] = TRUE,
                                  !.pulled = [k \in DOMAIN tc.m_ports |-> NotPulled],
                                  !.pushed = Append(@, << i, t >>)], i, po)
    /\ UNCHANGED << vars, moreVars, dfnVars, ports, pm, mgr >>

\* TriggerOutPort::pullRequest (TriggerOutPort.h lines 115-128) of a pull output
pullRequest(t, po) ==
    /\ TrigCalls(tc) < MaxTrigCalls
    /\ ~ tc.m_bPushOutput
    /\ tc' = triggerOut([tc EXCEPT !.pulled = [k \in DOMAIN tc.m_ports |-> NotPulled],
                                   !.pullRequests = @ + 1], t, po)
    /\ UNCHANGED << vars, moreVars, dfnVars, ports, pm, mgr >>

\* the pull ports of the trigger group
PullPorts == {i \in DOMAIN tc.m_ports : ~ tc.m_ports[i]}

NextTrigger ==
    \/ \E i \in 1..MaxTrigPorts, t \in Times, po \in [PullPorts -> PullOutcomes] :
           receivePush(i, t, po)
    \/ \E t \in Times, po \in [PullPorts -> PullOutcomes] : pullRequest(t, po)

SpecTrigger == InitTrigger /\ [][NextTrigger]_allVars

---------------------------------------------------------------------------
(* Ports and connections: Port.cpp, PushSupplier.h, PushConsumer.h,        *)
(* PullSupplier.h, PullConsumer.h, TriggerInPort.h, TriggerOutPort.h,      *)
(* ExpansionInPort.h and DataflowNetwork::connectComponents                *)

\* a port object: its class, its mode (isPush() / m_bPush of the trigger ports,
\* the mode of the class for the others) and its EventType template argument
PortOf(k, m, t) == [kind |-> k, push |-> m, type |-> t]

\* Measurement< A > and Measurement< std::vector< A > >
SingleEvent == "A"
VectorEvent == "vecA"

\* the ports of the modelled network; port i is the port "p" of component i
PortTable ==
    << PortOf("PushSupplier", TRUE, SingleEvent),  PortOf("PushSupplier", TRUE, VectorEvent),
       PortOf("PushConsumer", TRUE, SingleEvent),  PortOf("PushConsumer", TRUE, VectorEvent),
       PortOf("PullSupplier", FALSE, SingleEvent), PortOf("PullSupplier", FALSE, VectorEvent),
       PortOf("PullConsumer", FALSE, SingleEvent), PortOf("PullConsumer", FALSE, VectorEvent),
       PortOf("TriggerInPort", TRUE, SingleEvent), PortOf("TriggerInPort", FALSE, SingleEvent),
       PortOf("TriggerOutPort", TRUE, SingleEvent), PortOf("TriggerOutPort", FALSE, SingleEvent),
       PortOf("TriggerOutPort", TRUE, VectorEvent), PortOf("TriggerOutPort", FALSE, VectorEvent),
       PortOf("ExpansionInPort", TRUE, SingleEvent), PortOf("ExpansionInPort", FALSE, SingleEvent) >>
PortIds == DOMAIN PortTable

\* dynamic_cast< PushConsumerCore< t >& >( port q ) succeeds
IsPushConsumerCore(q, t) ==
    \/ PortTable[q].kind \in {"PushConsumer", "TriggerInPort"} /\ PortTable[q].type = t
    \/ PortTable[q].kind = "ExpansionInPort" /\ t \in {SingleEvent, VectorEvent}

\* dynamic_cast< PullSupplierCore< t >& >( port q ) succeeds
IsPullSupplierCore(q, t) ==
    PortTable[q].kind \in {"PullSupplier", "TriggerOutPort"} /\ PortTable[q].type = t

\* a port without connections: m_pushConsumers of a PushSupplierCore and the
\* supplier of its PullConsumerCore bases (0: none); an ExpansionInPort has one
\* PullConsumerCore for SingleEvent and one for VectorEvent
NoPort == 0
PortState == [m_pushConsumers |-> <<>>, m_pullSupplier |-> NoPort, m_pullSupplierVector |-> NoPort]
NoConnect == [op |-> "none", src |-> NoPort, dst |-> NoPort, result |-> "none"]

\* the result of a Port::connect call: the new port states, or an exception
Done(st) == [ok |-> TRUE, st |-> st]
Thrown(st) == [ok |-> FALSE, st |-> st]

\* PushSupplierCore::addPushConsumer (PushSupplier.h lines 99-111)
addPushConsumer(st, p, q) ==
    IF IsPushConsumerCore(q, PortTable[p].type)
    THEN Done([st EXCEPT ![p].m_pushConsumers = Append(@, q)])
    ELSE Thrown(st)

\* PushSupplierCore::removePushConsumer (PushSupplier.h lines 114-123)
removePushConsumer(st, p, q) ==
    [st EXCEPT ![p].m_pushConsumers = SelectSeq(@, LAMBDA x : x # q)]

\* PullConsumerCore< PortTable[p].type >::setPullSupplier (PullConsumer.h lines 105-126)
setPullSupplier(st, p, q) ==
    IF st[p].m_pullSupplier # NoPort THEN Thrown(st)
    ELSE IF IsPullSupplierCore(q, PortTable[p].type)
    THEN Done([st EXCEPT ![p].m_pullSupplier = q])
    ELSE Thrown(st)

\* PullConsumerCore< VectorEvent >::setPullSupplier of an ExpansionInPort
setPullSupplierVector(st, p, q) ==
    IF st[p].m_pullSupplierVector # NoPort THEN Thrown(st)
    ELSE IF IsPullSupplierCore(q, VectorEvent)
    THEN Done([st EXCEPT ![p].m_pullSupplierVector = q])
    ELSE Thrown(st)

\* PullConsumerCore::removePullSupplier (PullConsumer.h lines 129-135)
removePullSupplier(st, p) == [st EXCEPT ![p].m_pullSupplier = NoPort]

\* the connect( Port& ) of the class of port p, called with port q
connect(st, p, q) ==
    LET k == PortTable[p].kind
    IN CASE k = "PushSupplier" -> addPushConsumer(st, p, q)
         [] k = "PullConsumer" -> setPullSupplier(st, p, q)
         [] k = "TriggerInPort" ->
                IF ~ PortTable[p].push THEN setPullSupplier(st, p, q) ELSE Done(st)
         [] k = "TriggerOutPort" ->
                IF PortTable[p].push THEN addPushConsumer(st, p, q) ELSE Done(st)
         [] k = "ExpansionInPort" ->
                IF ~ PortTable[p].push
                THEN IF setPullSupplier(st, p, q).ok
                     THEN setPullSupplier(st, p, q)
                     ELSE setPullSupplierVector(st, p, q)
                ELSE Done(st)
         [] OTHER -> Done(st)      \* Port::connect (Port.cpp lines 54-57)

\* the disconnect( Port& ) of the class of port p, called with port q
disconnect(st, p, q) ==
    LET k == PortTable[p].kind
    IN CASE k = "PushSupplier" -> removePushConsumer(st, p, q)
         [] k = "PullConsumer" -> removePullSupplier(st, p)
         [] k = "TriggerInPort" ->
                IF ~ PortTable[p].push THEN removePullSupplier(st, p) ELSE st
         [] k = "TriggerOutPort" ->
                IF PortTable[p].push THEN removePushConsumer(st, p, q) ELSE st
         [] k = "ExpansionInPort" ->
                IF ~ PortTable[p].push THEN removePullSupplier(st, p) ELSE st
         [] OTHER -> st            \* Port::disconnect (Port.cpp lines 60-63)

\* the two connect calls of connectComponents without the inner catch block
connectPorts_NoRollback(st, src, dst) ==
    LET first == connect(st, src, dst)
        second == connect(first.st, dst, src)
    IN IF ~ first.ok THEN [result |-> "first failed", st |-> first.st]
       ELSE IF ~ second.ok THEN [result |-> "second failed", st |-> first.st]
       ELSE [result |-> "connected", st |-> second.st]

\* the two connect calls of connectComponents (DataflowNetwork.cpp lines 263-280)
connectPorts(st, src, dst) ==
    LET first == connect(st, src, dst)
        second == connect(first.st, dst, src)
    IN IF ~ first.ok THEN [result |-> "first failed", st |-> first.st]
       ELSE IF ~ second.ok THEN [result |-> "second failed", st |-> disconnect(first.st, src, dst)]
       ELSE [result |-> "connected", st |-> second.st]

\* std::map::operator[] followed by insert / erase on the ConnectionSet
MapInsert(m, c, x) ==
    [k \in DOMAIN m \cup {c} |-> IF k = c THEN (IF c \in DOMAIN m THEN m[c] ELSE {}) \cup {x}
                                 ELSE m[k]]
MapErase(m, c, x) ==
    [k \in DOMAIN m \cup {c} |-> IF k = c THEN (IF c \in DOMAIN m THEN m[c] ELSE {}) \ {x}
                                 ELSE m[k]]

\* every port of PortTable in a component of its own, nothing connected
InitConnect ==
    /\ Constructed /\ nMaxQueueLength = PortCaps
    /\ m_componentIDMap = PortIds
    /\ eventPriority = [c \in PortIds |-> 0]
    /\ m_allConnections = {}
    /\ m_inConnectionMap = <<>>
    /\ m_outConnectionMap = <<>>
    /\ aep = aepIdle
    /\ ports = [n |-> 0, st |-> [i \in PortIds |-> PortState], call |-> NoConnect]
    /\ NoTrigger /\ NoMatcher /\ NoManager
    /\ NoGraph /\ NoServer /\ NoTcp

\* DataflowNetwork::connectComponents (DataflowNetwork.cpp lines 246-287)
connectComponents(src, dst) ==
    LET connection == Connection(Side(src, "p"), Side(dst, "p"))
        r == connectPorts(ports.st, src, dst)
    IN /\ ports.n < MaxConnects
       /\ IF connection \in m_allConnections
          THEN /\ ports' = [ports EXCEPT !.n = @ + 1,
                               !.call = [op |-> "connect", src |-> src, dst |-> dst,
                                         result |-> "already connected"]]
               /\ UNCHANGED << m_allConnections, m_inConnectionMap, m_outConnectionMap >>
          ELSE /\ ports' = [n |-> ports.n + 1, st |-> r.st,
                            call |-> [op |-> "connect", src |-> src, dst |-> dst,
                                      result |-> r.result]]
               /\ IF r.result = "connected"
                  THEN /\ m_allConnections' = m_allConnections \cup {connection}
                       /\ m_inConnectionMap' = MapInsert(m_inConnectionMap, dst, connection)
                       /\ m_outConnectionMap' = MapInsert(m_outConnectionMap, src, connection)
                  ELSE UNCHANGED << m_allConnections, m_inConnectionMap, m_outConnectionMap >>
       /\ UNCHANGED << vars, moreVars, m_componentIDMap, eventPriority, aep, tc, pm, mgr >>

\* DataflowNetwork::disconnectComponents (DataflowNetwork.cpp lines 302-331)
disconnectComponents(src, dst) ==
    LET connection == Connection(Side(src, "p"), Side(dst, "p"))
    IN /\ ports.n < MaxConnects
       /\ IF connection \notin m_allConnections
          THEN /\ ports' = [ports EXCEPT !.n = @ + 1,
                               !.call = [op |-> "disconnect", src |-> src, dst |-> dst,
                                         result |-> "not connected"]]
               /\ UNCHANGED << m_allConnections, m_inConnectionMap, m_outConnectionMap >>
          ELSE /\ ports' = [n |-> ports.n + 1,
                            st |-> disconnect(disconnect(ports.st, dst, src), src, dst),
                            call |-> [op |-> "disconnect", src |-> src, dst |-> dst,
                                      result |-> "disconnected"]]
               /\ m_outConnectionMap' = MapErase(m_outConnectionMap, src, connection)
               /\ m_inConnectionMap' = MapErase(m_inConnectionMap, dst, connection)
               /\ m_allConnections' = m_allConnections \ {connection}
       /\ UNCHANGED << vars, moreVars, m_componentIDMap, eventPriority, aep, tc, pm, mgr >>

NextConnect ==
    \/ \E src \in PortIds, dst \in PortIds : connectComponents(src, dst)
    \/ \E src \in PortIds, dst \in PortIds : disconnectComponents(src, dst)

SpecConnect == InitConnect /\ [][NextConnect]_allVars

\* port p holds a reference to port q
References(st, p, q) ==
    \/ \E k \in 1..Len(st[p].m_pushConsumers) : st[p].m_pushConsumers[k] = q
    \/ st[p].m_pullSupplier = q
    \/ st[p].m_pullSupplierVector = q

\* the event types that the class of port p accepts or supplies
EventTypes(p) ==
    IF PortTable[p].kind = "ExpansionInPort" THEN {SingleEvent, VectorEvent}
    ELSE {PortTable[p].type}

\* port p is a supplier (an output port), otherwise a consumer
IsSupplier(p) == PortTable[p].kind \in {"PushSupplier", "PullSupplier", "TriggerOutPort"}

---------------------------------------------------------------------------
(* The pattern matcher: Pattern.h, EdgeMatching.h, Predicate.cpp,          *)
(* AttributeValue.cpp                                                      *)

\* AttributeValue::checkNumber: the strings that strtod() reads completely,
\* with their values
Numbers == [x \in {"1", "1.0"} |-> 1]
isNumber(v) == v \in DOMAIN Numbers
getNumber(v) == Numbers[v]

\* PredicateCompare::doCompare (Predicate.cpp lines 119-154) for == and !=
doCompare(op, a, b) ==
    IF op = "=="
    THEN IF isNumber(a) THEN isNumber(b) /\ getNumber(a) = getNumber(b) ELSE a = b
    ELSE IF isNumber(a) THEN (IF isNumber(b) THEN getNumber(a) # getNumber(b) ELSE TRUE)
         ELSE a # b

\* a comparison <attribute> op <constant>; a predicate is the sequence of the
\* comparisons that its PredicateAnd nodes join
Compare(a, op, v) == [attr |-> a, op |-> op, value |-> v]

\* Predicate::evaluate in the context of a node or edge with attributes attrs;
\* an attribute that is not set evaluates to the empty AttributeValue
evaluate(pred, attrs) ==
    \A k \in 1..Len(pred) : doCompare(pred[k].op, attrs[pred[k].attr], pred[k].value)

\* PredicateAnd / PredicateCompare::getConjunctiveEqualities
getConjunctiveEqualities(pred) == SelectSeq(pred, LAMBDA c : c.op = "==")

\* PatternFunc::isVertexCompatible and isEdgeCompatible (Pattern.h lines 229-261)
isCompatible(predicateList, attrs) ==
    \A k \in 1..Len(predicateList) : evaluate(predicateList[k], attrs)

\* the attributes of an SRG node or edge ("" : the attribute is not set)
Attrs(id, type) == [id |-> id, type |-> type]

\* the SRG nodes that are modelled: a node that was registered with an id has
\* this id as key of m_Nodes and as attribute (UTQLReader.cpp lines 237-250),
\* one without id gets a generated key (SRGraph.h lines 127-134)
SrgNodeChoices ==
    << { [key |-> "1", attrs |-> Attrs("1", t)] : t \in {"", "t"} },
       { [key |-> "tmp1000", attrs |-> Attrs("", t)] : t \in {"", "t"} },
       { [key |-> "x", attrs |-> Attrs("x", t)] : t \in {"", "t"} } >>

\* the predicate lists of the pattern nodes and edges that are modelled
NodePredicateLists ==
    { << >>,
      << << Compare("id", "==", "1.0") >> >>,
      << << Compare("type", "==", "t") >> >>,
      << << Compare("id", "==", "1"), Compare("type", "==", "t") >> >>,
      << << Compare("id", "==", "tmp1000") >> >> }
EdgePredicateLists == { << >>, << << Compare("type", "==", "t") >> >> }

\* the sequences of up to n edges between the nodes 1..k (parallel edges and
\* self loops included) that carry an element of X
EdgeLists(k, n, X) ==
    UNION { [1..m -> { [src |-> u, dst |-> v, x |-> x] : u \in 1..k, v \in 1..k, x \in X }] :
                m \in 0..n }

\* the positions of a sequence
Indices(s) == [k \in 1..Len(s) |-> k]

\* the patterns: input nodes 1..k in the order of m_Nodes with their predicate
\* lists, input edges in the order of m_Edges with theirs; inserted is the order
\* in which addEdge was called for them
Patterns(k) ==
    { [nodes |-> N, edges |-> E, inserted |-> Indices(E)] :
          N \in [1..k -> NodePredicateLists],
          E \in EdgeLists(k, MaxPatEdges, EdgePredicateLists) }

\* the SRGs: nodes in the order of m_Nodes, edges in the order of m_Edges with
\* their "type" attribute
SRGraphs(k) ==
    { [nodes |-> N, edges |-> E, inserted |-> Indices(E)] :
          N \in { n \in [1..k -> UNION { SrgNodeChoices[i] : i \in 1..k }] :
                      \A i \in 1..k : n[i] \in SrgNodeChoices[i] },
          E \in EdgeLists(k, MaxSrgEdges, {"", "t"}) }

\* Node::m_OutEdges and Node::m_InEdges (Graph.h lines 279-280): the edges of
\* a node in the order of their insertion
OutEdges(g, v) == SelectSeq(g.inserted, LAMBDA e : g.edges[e].src = v)
InEdges(g, v) == SelectSeq(g.inserted, LAMBDA e : g.edges[e].dst = v)

(* Pattern::Pattern (Pattern.h lines 55-183): the search plan *)

NodeStep(n, sId) == [m_pNode |-> n, m_pEdge |-> 0, m_sId |-> sId]
EdgeStep(e) == [m_pNode |-> 0, m_pEdge |-> e, m_sId |-> ""]

\* lines 74-82: the "id" equalities of the first predicate of a node
IdEqualities(predicateList) ==
    IF predicateList = << >> THEN << >>
    ELSE SelectSeq(getConjunctiveEqualities(predicateList[1]), LAMBDA c : c.attr = "id")

\* lines 69-86: every node whose first predicate pins the id is searched by id
RECURSIVE PlanIdNodes(_, _, _)
PlanIdNodes(p, n, st) ==
    IF n > Len(p.nodes) THEN st
    ELSE IF IdEqualities(p.nodes[n]) # << >>
    THEN PlanIdNodes(p, n + 1,
             [st EXCEPT !.plan = Append(@, NodeStep(n, IdEqualities(p.nodes[n])[1].value)),
                        !.matchedNodes = @ \cup {n},
                        !.nodeStack = Append(@, n)])
    ELSE PlanIdNodes(p, n + 1, st)

\* lines 88-113: without such a node the plan starts with the first node that
\* has predicates, or else with the first input edge
PlanStart(p, st) ==
    IF st.nodeStack # << >> THEN st
    ELSE IF \E n \in 1..Len(p.nodes) : p.nodes[n] # << >>
    THEN LET n == CHOOSE n \in 1..Len(p.nodes) :
                      p.nodes[n] # << >> /\ \A k \in 1..(n - 1) : p.nodes[k] = << >>
         IN [st EXCEPT !.plan = Append(@, NodeStep(n, "")),
                       !.matchedNodes = @ \cup {n},
                       !.nodeStack = Append(@, n)]
    ELSE IF p.edges # << >>
    THEN [st EXCEPT !.plan = Append(@, EdgeStep(1)),
                    !.matchedEdges = @ \cup {1},
                    !.matchedNodes = @ \cup {p.edges[1].src, p.edges[1].dst},
                    !.nodeStack = @ \o << p.edges[1].src, p.edges[1].dst >>]
    ELSE st

\* lines 124-145 (out = TRUE) and 148-169 (out = FALSE): follow the edges es of
\* a node
RECURSIVE PlanFollow(_, _, _, _)
PlanFollow(p, es, out, st) ==
    IF es = << >> THEN st
    ELSE LET e == Head(es)
             other == IF out THEN p.edges[e].dst ELSE p.edges[e].src
             s1 == [st EXCEPT !.plan = Append(@, EdgeStep(e)), !.matchedEdges = @ \cup {e}]
             s2 == IF other \in st.matchedNodes THEN s1
                   ELSE [s1 EXCEPT !.plan = IF p.nodes[other] # << >>
                                            THEN Append(@, NodeStep(other, "")) ELSE @,
                                   !.matchedNodes = @ \cup {other},
                                   !.nodeStack = Append(@, other)]
         IN IF e \in st.matchedEdges
            THEN PlanFollow(p, Tail(es), out, st)
            ELSE PlanFollow(p, Tail(es), out, s2)

\* lines 116-182: the graph search; an input node that it did not reach starts
\* a new search
RECURSIVE PlanSearch(_, _)
PlanSearch(p, st) ==
    IF st.nodeStack # << >>
    THEN LET n == st.nodeStack[Len(st.nodeStack)]
             popped == [st EXCEPT !.nodeStack = SubSeq(@, 1, Len(@) - 1)]
             outDone == PlanFollow(p, OutEdges(p, n), TRUE, popped)
         IN PlanSearch(p, PlanFollow(p, InEdges(p, n), FALSE, outDone))
    ELSE IF \E n \in 1..Len(p.nodes) : n \notin st.matchedNodes
    THEN LET n == CHOOSE n \in 1..Len(p.nodes) :
                      n \notin st.matchedNodes /\ \A k \in 1..(n - 1) : k \in st.matchedNodes
         IN PlanSearch(p, [st EXCEPT !.plan = Append(@, NodeStep(n, "")),
                                     !.matchedNodes = @ \cup {n},
                                     !.nodeStack = Append(@, n)])
    ELSE st

m_searchPlan(p) ==
    PlanSearch(p, PlanStart(p, PlanIdNodes(p, 1,
        [plan |-> << >>, matchedEdges |-> {}, matchedNodes |-> {}, nodeStack |-> << >>]))).plan

(* EdgeMatching (EdgeMatching.h) *)

\* std::map::operator[] with an assignment
Put(m, k, v) == [x \in DOMAIN m \cup {k} |-> IF x = k THEN v ELSE m[x]]

\* EdgeMatching::EdgeMatching with m_iSearchPlanStep = 0
EdgeMatching ==
    [m_iSearchPlanStep |-> 0, m_edgeForwardMap |-> << >>, m_edgeBackwardMap |-> << >>,
     m_vertexForwardMap |-> << >>, m_vertexBackwardMap |-> << >>]

isPatternVertexMatched(m, u) == u \in DOMAIN m.m_vertexForwardMap
isSrgVertexMatched(m, v) == v \in DOMAIN m.m_vertexBackwardMap
isSrgEdgeMatched(m, f) == f \in DOMAIN m.m_edgeBackwardMap

\* EdgeMatching::addMatchedEdge (lines 59-90): pattern edge e to SRG edge f
addMatchedEdge(m, p, g, e, f) ==
    [m EXCEPT !.m_edgeForwardMap = Put(@, e, f),
              !.m_edgeBackwardMap = Put(@, f, e),
              !.m_vertexForwardMap = Put(Put(@, p.edges[e].src, g.edges[f].src),
                                         p.edges[e].dst, g.edges[f].dst),
              !.m_vertexBackwardMap = Put(Put(@, g.edges[f].src, p.edges[e].src),
                                          g.edges[f].dst, p.edges[e].dst)]

\* EdgeMatching::addMatchedVertex (lines 92-101)
addMatchedVertex(m, u, v) ==
    [m EXCEPT !.m_vertexForwardMap = Put(@, u, v),
              !.m_vertexBackwardMap = Put(@, v, u)]

(* PatternFunc::checkPattern (Pattern.h lines 264-411) *)

\* the states that one iteration of the loop pushes for the state that it
\* popped, in the order of the pushes
Refinements(p, g, plan, popped) ==
    LET state == [popped EXCEPT !.m_iSearchPlanStep = @ + 1]
        step == plan[popped.m_iSearchPlanStep + 1]
        pEdge == step.m_pEdge
        pVertex == step.m_pNode
        source == p.edges[pEdge].src
        target == p.edges[pEdge].dst
        bSourceMatched == isPatternVertexMatched(state, source)
        bTargetMatched == isPatternVertexMatched(state, target)
        edgeOk(f) == /\ ~ isSrgEdgeMatched(state, f)
                     /\ isCompatible(p.edges[pEdge].x, Attrs("", g.edges[f].x))
        fromSource == SelectSeq(OutEdges(g, state.m_vertexForwardMap[source]),
                          LAMBDA f : /\ ~ isSrgEdgeMatched(state, f)
                                     /\ bTargetMatched => state.m_vertexForwardMap[target] = g.edges[f].dst
                                     /\ isCompatible(p.edges[pEdge].x, Attrs("", g.edges[f].x)))
        fromTarget == SelectSeq(InEdges(g, state.m_vertexForwardMap[target]),
                          LAMBDA f : edgeOk(f))
        anyEdge == SelectSeq(Indices(g.edges),
                          LAMBDA f : /\ ~ isSrgVertexMatched(state, g.edges[f].src)
                                     /\ ~ isSrgVertexMatched(state, g.edges[f].dst)
                                     /\ edgeOk(f))
        edges == IF bSourceMatched THEN fromSource
                 ELSE IF bTargetMatched THEN fromTarget ELSE anyEdge
        anyNode == SelectSeq(Indices(g.nodes),
                          LAMBDA v : /\ ~ isSrgVertexMatched(state, v)
                                     /\ isCompatible(p.nodes[pVertex], g.nodes[v].attrs))
        byId == SelectSeq(Indices(g.nodes), LAMBDA v : g.nodes[v].key = step.m_sId)
    IN IF pEdge # 0
       THEN [k \in 1..Len(edges) |-> addMatchedEdge(state, p, g, pEdge, edges[k])]
       ELSE IF isPatternVertexMatched(state, pVertex)
       THEN IF isCompatible(p.nodes[pVertex], g.nodes[state.m_vertexForwardMap[pVertex]].attrs)
            THEN << state >> ELSE << >>
       ELSE IF step.m_sId = ""
       THEN [k \in 1..Len(anyNode) |-> addMatchedVertex(state, pVertex, anyNode[k])]
       ELSE [k \in 1..Len(byId) |-> addMatchedVertex(state, pVertex, byId[k])]

\* the loop of checkPattern: the stack (top last) and the detected matches
RECURSIVE MatchLoop(_, _, _, _, _)
MatchLoop(p, g, plan, stack, detectedMatches) ==
    IF stack = << >> THEN detectedMatches
    ELSE LET popped == stack[Len(stack)]
             rest == SubSeq(stack, 1, Len(stack) - 1)
         IN IF popped.m_iSearchPlanStep = Len(plan)
            THEN MatchLoop(p, g, plan, rest,
                     Append(detectedMatches, [popped EXCEPT !.m_iSearchPlanStep = @ + 1]))
            ELSE MatchLoop(p, g, plan, rest \o Refinements(p, g, plan, popped), detectedMatches)

InitMatch ==
    /\ Constructed /\ nMaxQueueLength = PortCaps /\ NetworkConstructed
    /\ \E kp \in 1..MaxPatNodes, kg \in 1..MaxSrgNodes :
           \E p \in Patterns(kp), g \in SRGraphs(kg) :
               pm = [p |-> p, srg |-> g, returned |-> FALSE, detectedMatches |-> << >>]
    /\ NoTrigger /\ NoPorts /\ NoManager
    /\ NoGraph /\ NoServer /\ NoTcp

\* PatternFunc::checkPattern( p, srg )
checkPattern ==
    /\ ~ pm.returned
    /\ pm' = [pm EXCEPT !.returned = TRUE,
                        !.detectedMatches =
                            MatchLoop(pm.p, pm.srg, m_searchPlan(pm.p), << EdgeMatching >>, << >>)]
    /\ UNCHANGED << vars, moreVars, dfnVars, tc, ports, mgr >>

NextMatch == checkPattern

SpecMatch == InitMatch /\ [][NextMatch]_allVars

---------------------------------------------------------------------------
(* The SRG manager: UTQLSRGManager.h                                       *)

\* applyDetectedPattern (line 860): the first value of patternApplicationID
FirstApplicationID == 2000

\* the id of a pattern instance is the name of the pattern followed by
\* patternApplicationID (lines 861-863); pattern k has a name whose order among
\* the ids is k, the base SRGs have the ids 1, 2, ... of BaseSrgs
InstanceId(k, n) == 10000 * k + n

\* the name of an SRG edge: subgraph id + ":" + local edge name
EdgeName(subgraphID, name) == << subgraphID, name >>
NameBefore(a, b) == a[1] < b[1] \/ (a[1] = b[1] /\ a[2] < b[2])

\* the elements of a set of numbers, and of a set of edge names, in the order
\* in which a std::set or std::map iterates over them
RECURSIVE SortedIds(_)
SortedIds(S) ==
    IF S = {} THEN << >>
    ELSE LET x == CHOOSE x \in S : \A y \in S : x <= y
         IN << x >> \o SortedIds(S \ {x})
RECURSIVE SortedNames(_)
SortedNames(S) ==
    IF S = {} THEN << >>
    ELSE LET x == CHOOSE x \in S : \A y \in S \ {x} : NameBefore(x, y)
         IN << x >> \o SortedNames(S \ {x})
PositionIn(seq, x) == CHOOSE i \in 1..Len(seq) : seq[i] = x

\* the base SRGs that clients register: subgraph id, output nodes and output
\* edges; the third one has the id of the first one, other nodes and another
\* edge name
BaseSrgs ==
    << [id |-> 1, nodes |-> {1, 2}, edges |-> << [name |-> 1, src |-> 1, dst |-> 2] >>],
       [id |-> 2, nodes |-> {2, 3}, edges |-> << [name |-> 1, src |-> 2, dst |-> 3] >>],
       [id |-> 1, nodes |-> {1, 3}, edges |-> << [name |-> 2, src |-> 3, dst |-> 1] >>] >>

\* the registered patterns: inversion (input A -> B, output B -> A),
\* concatenation (inputs A -> B and B -> C, output A -> C) and inv(X)*X
\* (inputs A -> B and B -> A, output A -> A); no predicates, no attributes
BasicPatterns ==
    << [nodes |-> << << >>, << >> >>,
        edges |-> << [src |-> 1, dst |-> 2, x |-> << >>] >>,
        inserted |-> << 1 >>,
        outputs |-> << [src |-> 2, dst |-> 1, type |-> ""] >>],
       [nodes |-> << << >>, << >>, << >> >>,
        edges |-> << [src |-> 1, dst |-> 2, x |-> << >>], [src |-> 2, dst |-> 3, x |-> << >>] >>,
        inserted |-> << 1, 2 >>,
        outputs |-> << [src |-> 1, dst |-> 3, type |-> ""] >>],
       [nodes |-> << << >>, << >> >>,
        edges |-> << [src |-> 1, dst |-> 2, x |-> << >>], [src |-> 2, dst |-> 1, x |-> << >>] >>,
        inserted |-> << 1, 2 >>,
        outputs |-> << [src |-> 1, dst |-> 1, type |-> ""] >>] >>

\* the values of the "type" attribute that the conversion patterns produce
StageTypes ==
    << "s1", "s2", "s3", "s4", "s5", "s6", "s7", "s8", "s9", "s10", "s11", "s12", "s13" >>

\* conversion pattern i: input edge A -> B, for i > 1 with the predicate
\* type=='s(i-1)', output edge A -> B with the fixed attribute type="s(i)"
StagePattern(i) ==
    [nodes |-> << << >>, << >> >>,
     edges |-> << [src |-> 1, dst |-> 2,
                   x |-> IF i = 1 THEN << >>
                         ELSE << << Compare("type", "==", StageTypes[i - 1]) >> >>] >>,
     inserted |-> << 1 >>,
     outputs |-> << [src |-> 1, dst |-> 2, type |-> StageTypes[i]] >>]

\* the patterns by their names
ManagerPatterns == BasicPatterns \o [i \in 1..MaxStages |-> StagePattern(i)]

\* the local name of the j-th output edge of a pattern (after its input edges)
OutputName(p, j) == Len(p.edges) + j

\* an SRG edge (SRGEdgeAttributes, SRGraph.h lines 96-107)
SRGEdge(src, dst, subgraphID, sources) ==
    [m_Source |-> src, m_Target |-> dst, m_SubgraphID |-> subgraphID,
     m_DependantSubgraphIDs |-> {}, m_InformationSources |-> sources, type |-> ""]

NoCallYet == [op |-> "none", id |-> 0, threw |-> FALSE, erased |-> << >>, created |-> {}]

\* UTQLSRGManager after construction: empty world SRG, empty repository, no
\* patterns and no queries. stale holds the SRG nodes whose edge lists have an
\* entry for an Edge object that no longer exists.
InitManager ==
    [m_Nodes |-> << >>, m_Edges |-> << >>, edgeOrder |-> << >>,
     m_GraphRepository |-> << >>, patternApplicationID |-> FirstApplicationID,
     m_Patterns |-> << >>, m_ActiveQueries |-> << >>, stale |-> {},
     call |-> NoCallYet]

\* Graph::addEdge (Graph.h lines 271-282). With a name in use the map keeps its
\* entry, the nodes' lists get weak pointers to the new Edge object, and the
\* manager drops the only shared pointer to it.
addEdge(m, name, e) ==
    IF name \in DOMAIN m.m_Edges
    THEN [m EXCEPT !.stale = @ \cup {e.m_Source, e.m_Target}]
    ELSE [m EXCEPT !.m_Edges = Put(@, name, e), !.edgeOrder = Append(@, name)]

\* Graph::removeEdge
removeEdge(m, name) ==
    [m EXCEPT !.m_Edges = [n \in DOMAIN @ \ {name} |-> @[n]],
              !.edgeOrder = SelectSeq(@, LAMBDA n : n # name)]

\* Graph::removeNode (Graph.h lines 226-237): the node and its incident edges
removeNode(m, v) ==
    LET incident == { n \in DOMAIN m.m_Edges :
                          m.m_Edges[n].m_Source = v \/ m.m_Edges[n].m_Target = v }
    IN [m EXCEPT !.m_Edges = [n \in DOMAIN @ \ incident |-> @[n]],
                 !.edgeOrder = SelectSeq(@, LAMBDA n : n \notin incident),
                 !.m_Nodes = [k \in DOMAIN @ \ {v} |-> @[k]]]

\* registerSRG (lines 1050-1135) of the base SRG b
RECURSIVE registerEdges(_, _, _)
registerEdges(m, b, j) ==
    IF j > Len(BaseSrgs[b].edges) THEN m
    ELSE LET edge == BaseSrgs[b].edges[j]
             edgeName == EdgeName(BaseSrgs[b].id, edge.name)
         IN registerEdges(
                addEdge(m, edgeName, SRGEdge(edge.src, edge.dst, BaseSrgs[b].id, {edgeName})),
                b, j + 1)

registerNodes(m, b) ==
    [m EXCEPT !.m_Nodes = [v \in DOMAIN @ \cup BaseSrgs[b].nodes |->
                              IF v \notin BaseSrgs[b].nodes THEN @[v]
                              ELSE IF v \in DOMAIN @ THEN @[v] \cup {BaseSrgs[b].id}
                              ELSE {BaseSrgs[b].id}]]

registered(m, b) ==
    registerEdges(
        registerNodes(
            [m EXCEPT !.m_GraphRepository =
                          Put(@, BaseSrgs[b].id,
                              [nodes |-> BaseSrgs[b].nodes, inputs |-> {},
                               outputs |-> { BaseSrgs[b].edges[j].name :
                                                 j \in 1..Len(BaseSrgs[b].edges) }])], b),
        b, 1)

\* the world SRG as the matcher sees it: nodes and edges in the order of the
\* maps m_Nodes and m_Edges
GlobalSrg(m) ==
    LET ns == SortedIds(DOMAIN m.m_Nodes)
        es == SortedNames(DOMAIN m.m_Edges)
    IN [nodes |-> [i \in 1..Len(ns) |->
                      CHOOSE n \in SrgNodeChoices[ns[i]] : n.attrs.type = ""],
        edges |-> [i \in 1..Len(es) |->
                      [src |-> PositionIn(ns, m.m_Edges[es[i]].m_Source),
                       dst |-> PositionIn(ns, m.m_Edges[es[i]].m_Target),
                       x |-> m.m_Edges[es[i]].type]],
        inserted |-> [i \in 1..Len(m.edgeOrder) |-> PositionIn(es, m.edgeOrder[i])]]

\* matchPattern (lines 377-390): the matchings of checkPattern, with the SRG
\* nodes and SRG edges they point to
matchPattern(m, p) ==
    LET ns == SortedIds(DOMAIN m.m_Nodes)
        es == SortedNames(DOMAIN m.m_Edges)
        found == MatchLoop(p, GlobalSrg(m), m_searchPlan(p), << EdgeMatching >>, << >>)
    IN [i \in 1..Len(found) |->
           [m_edgeForwardMap |->
                [e \in DOMAIN found[i].m_edgeForwardMap |-> es[found[i].m_edgeForwardMap[e]]],
            m_vertexForwardMap |->
                [v \in DOMAIN found[i].m_vertexForwardMap |-> ns[found[i].m_vertexForwardMap[v]]]]]

\* the mutation: stage 1 accepts every matching
decidePattern1_Accept(m, matching) == TRUE

\* decidePattern1 (lines 640-685) with ERQ_DISJOINT_INFORMATION_SOURCES
decidePattern1(m, matching) ==
    \A e, f \in DOMAIN matching.m_edgeForwardMap :
        e # f =>
            m.m_Edges[matching.m_edgeForwardMap[e]].m_InformationSources
                \cap m.m_Edges[matching.m_edgeForwardMap[f]].m_InformationSources = {}

\* the mutation: the information sources are cleared and not collected
expandMatchingAttributes_Cleared(m, p, matching) == {}

\* expandMatchingAttributes (lines 393-427): matching.m_informationSources
expandMatchingAttributes(m, p, matching) ==
    UNION { m.m_Edges[matching.m_edgeForwardMap[e]].m_InformationSources :
                e \in 1..Len(p.edges) }

\* decidePattern2 (lines 695-846) for edges without known attributes, with
\* ALLOW_WORSE_EDGES: an output edge is redundant when an SRG edge between the
\* same nodes has the fixed attribute of the output edge and the same
\* information sources
decidePattern2(m, p, matching, m_informationSources) ==
    \E j \in 1..Len(p.outputs) :
        LET source == matching.m_vertexForwardMap[p.outputs[j].src]
            target == matching.m_vertexForwardMap[p.outputs[j].dst]
        IN /\ source # target
           /\ ~ \E n \in DOMAIN m.m_Edges :
                    /\ m.m_Edges[n].m_Source = source
                    /\ m.m_Edges[n].m_Target = target
                    /\ p.outputs[j].type # "" => m.m_Edges[n].type = p.outputs[j].type
                    /\ m.m_Edges[n].m_InformationSources = m_informationSources

\* applyDetectedPattern (lines 853-912) for pattern k
RECURSIVE insertOutputs(_, _, _, _, _, _)
insertOutputs(m, p, id, matching, m_informationSources, j) ==
    IF j > Len(p.outputs) THEN m
    ELSE insertOutputs(
             addEdge(m, EdgeName(id, OutputName(p, j)),
                 [SRGEdge(matching.m_vertexForwardMap[p.outputs[j].src],
                          matching.m_vertexForwardMap[p.outputs[j].dst],
                          id, m_informationSources) EXCEPT !.type = p.outputs[j].type]),
             p, id, matching, m_informationSources, j + 1)

applyDetectedPattern(m, k, matching, m_informationSources) ==
    LET p == ManagerPatterns[k]
        id == InstanceId(k, m.patternApplicationID)
        used == { matching.m_edgeForwardMap[e] : e \in 1..Len(p.edges) }
        referenced ==
            [m EXCEPT !.patternApplicationID = @ + 1,
                      !.m_Edges = [n \in DOMAIN @ |->
                                     IF n \in used
                                     THEN [@[n] EXCEPT !.m_DependantSubgraphIDs = @ \cup {id}]
                                     ELSE @[n]]]
        inserted == insertOutputs(referenced, p, id, matching, m_informationSources, 1)
    IN [inserted EXCEPT !.m_GraphRepository =
                            Put(@, id, [nodes |-> {}, inputs |-> used,
                                        outputs |-> { OutputName(p, j) : j \in 1..Len(p.outputs) }])]

\* the loop of applyPattern (lines 313-347) over the matches; without edge
\* attributes no instance supersedes another one
RECURSIVE applyMatches(_, _, _)
applyMatches(m, k, matches) ==
    IF matches = << >> THEN m
    ELSE LET matching == Head(matches)
             sources == expandMatchingAttributes(m, ManagerPatterns[k], matching)
         IN IF decidePattern1(m, matching)
               /\ decidePattern2(m, ManagerPatterns[k], matching, sources)
            THEN applyMatches(applyDetectedPattern(m, k, matching, sources), k, Tail(matches))
            ELSE applyMatches(m, k, Tail(matches))

\* the mutation: the dependent subgraphs are not put on the stack
newDependants_None(m, edgeName, deletedSubgraphs) == << >>

\* deleteSRG lines 1336-1350: the dependent subgraphs of an output edge that
\* are not yet marked, in the order in which they are pushed
newDependants(m, edgeName, deletedSubgraphs) ==
    SortedIds(m.m_Edges[edgeName].m_DependantSubgraphIDs \ deletedSubgraphs)

\* deleteSRG lines 1296-1321: the input edges of the subgraph no longer list
\* it as dependant
removeDependency(m, subgraphID) ==
    [m EXCEPT !.m_Edges = [n \in DOMAIN @ |->
                             IF n \in m.m_GraphRepository[subgraphID].inputs
                             THEN [@[n] EXCEPT !.m_DependantSubgraphIDs = @ \ {subgraphID}]
                             ELSE @[n]]]

\* deleteSRG lines 1323-1355: the output edges names of the subgraph; st holds
\* the manager, the stack, the marked subgraphs and whether getEdge has thrown
RECURSIVE removeOutputs(_, _, _)
removeOutputs(st, subgraphID, names) ==
    IF names = << >> \/ st.threw THEN st
    ELSE LET edgeName == EdgeName(subgraphID, Head(names))
         IN IF edgeName \notin DOMAIN st.m.m_Edges
            THEN [st EXCEPT !.threw = TRUE]
            ELSE LET pushed == newDependants(st.m, edgeName, st.deletedSubgraphs)
                 IN removeOutputs(
                        [st EXCEPT !.m = removeEdge(@, edgeName),
                                   !.deleteStack = @ \o pushed,
                                   !.deletedSubgraphs = @ \cup { pushed[i] : i \in 1..Len(pushed) }],
                        subgraphID, Tail(names))

\* deleteSRG lines 1358-1401: the output nodes of the subgraph
releaseNodes(st, subgraphID) ==
    LET nodes == st.m.m_GraphRepository[subgraphID].nodes
    IN IF st.threw THEN st
       ELSE IF \E v \in nodes : v \notin DOMAIN st.m.m_Nodes
       THEN [st EXCEPT !.threw = TRUE]
       ELSE [st EXCEPT !.m.m_Nodes = [v \in DOMAIN @ |->
                                         IF v \in nodes THEN @[v] \ {subgraphID} ELSE @[v]],
                       !.removableNodes =
                           @ \cup { v \in nodes : st.m.m_Nodes[v] \ {subgraphID} = {} }]

RECURSIVE removeNodes(_, _)
removeNodes(m, nodes) ==
    IF nodes = << >> THEN m
    ELSE removeNodes(IF Head(nodes) \in DOMAIN m.m_Nodes THEN removeNode(m, Head(nodes)) ELSE m,
                     Tail(nodes))

\* the loop of deleteSRG (lines 1250-1407) and the removal of the nodes
\* (lines 1422-1429)
RECURSIVE deleteLoop(_)
deleteLoop(st) ==
    IF st.threw THEN st
    ELSE IF st.deleteStack = << >>
    THEN [st EXCEPT !.m = removeNodes(@, SortedIds(st.removableNodes))]
    ELSE LET subgraphID == st.deleteStack[Len(st.deleteStack)]
             popped == [st EXCEPT !.deleteStack = SubSeq(@, 1, Len(@) - 1)]
         IN IF subgraphID \notin DOMAIN st.m.m_GraphRepository
            THEN deleteLoop(popped)
            ELSE LET unlinked == [popped EXCEPT !.m = removeDependency(@, subgraphID)]
                     edgesGone == removeOutputs(unlinked, subgraphID,
                                      SortedIds(st.m.m_GraphRepository[subgraphID].outputs))
                     nodesGone == releaseNodes(edgesGone, subgraphID)
                 IN IF nodesGone.threw THEN nodesGone
                    ELSE deleteLoop(
                             [nodesGone EXCEPT !.m.m_GraphRepository =
                                                   [i \in DOMAIN @ \ {subgraphID} |-> @[i]]])

deleted(m, primalSubgraphID) ==
    deleteLoop([m |-> m, deleteStack |-> << primalSubgraphID >>, deletedSubgraphs |-> {},
                removableNodes |-> {}, threw |-> FALSE])

InitSrg ==
    /\ Constructed /\ nMaxQueueLength = PortCaps /\ NetworkConstructed
    /\ NoTrigger /\ NoPorts /\ NoMatcher
    /\ NoGraph /\ NoServer /\ NoTcp
    /\ mgr = InitManager

\* the call record of an operation that took mgr to m
Called(op, id, threw, m) ==
    [m EXCEPT !.call =
        [op |-> op, id |-> id, threw |-> threw,
         erased |-> [i \in DOMAIN mgr.m_GraphRepository \ DOMAIN m.m_GraphRepository |->
                        mgr.m_GraphRepository[i]],
         created |-> DOMAIN m.m_GraphRepository \ DOMAIN mgr.m_GraphRepository]]

\* UTQLSRGManager::registerSRG( subgraph b, clientID )
registerSRG(b) ==
    /\ BaseSrgs[b].id \notin DOMAIN mgr.m_GraphRepository
    /\ mgr' = Called("registerSRG", BaseSrgs[b].id, FALSE, registered(mgr, b))
    /\ UNCHANGED << vars, moreVars, dfnVars, tc, ports, pm >>

\* UTQLSRGManager::applyPattern( pattern k )
applyPattern(k) ==
    /\ mgr.patternApplicationID < FirstApplicationID + MaxInstances
    /\ mgr' = Called("applyPattern", k, FALSE,
                  applyMatches(mgr, k, matchPattern(mgr, ManagerPatterns[k])))
    /\ UNCHANGED << vars, moreVars, dfnVars, tc, ports, pm >>

\* UTQLSRGManager::deleteSRG( primalSubgraphID )
deleteSRG(primalSubgraphID) ==
    /\ LET st == deleted(mgr, primalSubgraphID)
       IN mgr' = Called("deleteSRG", primalSubgraphID, st.threw, st.m)
    /\ UNCHANGED << vars, moreVars, dfnVars, tc, ports, pm >>

NextSrg ==
    \/ \E b \in 1..Len(BaseSrgs) : registerSRG(b)
    \/ \E k \in 1..Len(BasicPatterns) : applyPattern(k)
    \/ \E id \in DOMAIN mgr.m_GraphRepository \cup (1..Len(BaseSrgs)) : deleteSRG(id)

SpecSrg == InitSrg /\ [][NextSrg]_allVars

---------------------------------------------------------------------------
(* The server: UTQLServer.h, AnnouncementRepository.h, with one client     *)

\* the id and the name of the subgraph that announces pattern k, of the base
\* SRG b and of the query: all different from each other
PatternID(k) == 10 + k
SrgName(b) == 100 + b
QueryID == PatternID(Len(ManagerPatterns) + 1)
QueryName == SrgName(Len(BaseSrgs) + 1)

\* the subgraph id that a deletion may name without any announcement of it
UnknownID == PatternID(Len(ManagerPatterns) + 2)

\* the pattern that the client announces: concatenation
ServerPatterns == {2}

\* the documents a client sends. Announcement::determineType (Announcement.h
\* lines 76-143): outputs only is an SRG registration, inputs and outputs a
\* pattern, inputs only a query, neither a deletion. A deletion carries the id
\* of the announcement and a subgraph name.
SrgAnnouncement(b) ==
    [m_Type |-> "SRGRegistration", m_ID |-> BaseSrgs[b].id, m_Name |-> SrgName(b), body |-> b]
PatternAnnouncement(k) ==
    [m_Type |-> "Pattern", m_ID |-> PatternID(k), m_Name |-> k, body |-> k]
ClientSubgraphs ==
    { SrgAnnouncement(b) : b \in 1..Len(BaseSrgs) }
    \cup { PatternAnnouncement(k) : k \in ServerPatterns }
    \cup { [m_Type |-> "Query", m_ID |-> QueryID, m_Name |-> QueryName, body |-> 0] }
    \cup { [m_Type |-> "Deletion", m_ID |-> BaseSrgs[b].id, m_Name |-> SrgName(b), body |-> 0] :
               b \in 1..Len(BaseSrgs) }
    \cup { [m_Type |-> "Deletion", m_ID |-> PatternID(k), m_Name |-> k, body |-> 0] :
               k \in ServerPatterns }
    \cup { [m_Type |-> "Deletion", m_ID |-> QueryID, m_Name |-> QueryName, body |-> 0] }
    \cup { [m_Type |-> "Deletion", m_ID |-> UnknownID, m_Name |-> k, body |-> 0] :
               k \in {0} \cup ServerPatterns }

\* UTQLServer::UTQLServer: no announcement, nothing running on the client;
\* call holds the type of the last announcement and whether processing it threw
ServerConstructed ==
    [m_Store |-> << >>, m_pClientDataflowState |-> << >>, document |-> << >>,
     call |-> [m_Type |-> "", threw |-> FALSE]]

\* a list without the first entry that equals x
RemoveFirst(list, x) ==
    LET hits == { i \in 1..Len(list) : list[i] = x }
        first == CHOOSE i \in hits : \A j \in hits : i <= j
    IN IF hits = {} THEN list
       ELSE [i \in 1..(Len(list) - 1) |-> IF i < first THEN list[i] ELSE list[i + 1]]

\* InstantiatedPattern::m_Name of a repository entry: an instance of pattern k
\* has the name k, a base SRG its own name, which is no pattern's name
InstanceName(subgraphID) ==
    IF subgraphID >= InstanceId(1, 0) THEN subgraphID \div InstanceId(1, 0) ELSE 0

\* UTQLSRGManager::deletePattern (lines 1176-1219); st holds the manager and
\* whether deleteSRG has thrown
RECURSIVE deletePatternLoop(_, _)
deletePatternLoop(st, patternName) ==
    LET es == SortedNames(DOMAIN st.m.m_Edges)
        hits == { i \in 1..Len(es) :
                      InstanceName(st.m.m_Edges[es[i]].m_SubgraphID) = patternName }
        first == CHOOSE i \in hits : \A j \in hits : i <= j
        gone == deleted(st.m, st.m.m_Edges[es[first]].m_SubgraphID)
    IN IF st.threw \/ hits = {} THEN st
       ELSE deletePatternLoop([m |-> gone.m, threw |-> gone.threw], patternName)

deletePattern(m, patternName) ==
    LET st == deletePatternLoop([m |-> m, threw |-> FALSE], patternName)
    IN IF st.threw THEN st
       ELSE [st EXCEPT !.m.m_Patterns = RemoveFirst(@, patternName)]

\* UTQLSRGManager::deleteQuery (lines 1146-1161)
deleteQuery(m, queryName) ==
    IF \E i \in 1..Len(m.m_ActiveQueries) : m.m_ActiveQueries[i] = queryName
    THEN [m |-> [m EXCEPT !.m_ActiveQueries = RemoveFirst(@, queryName)], threw |-> FALSE]
    ELSE [m |-> m, threw |-> TRUE]

\* UTQLServer::deleteAnnouncement (lines 147-193) with
\* AnnouncementRepository::deleteAnnouncement (lines 87-101)
deleteAnnouncement(m, m_Store, announcementID, subgraphName) ==
    IF announcementID \in DOMAIN m_Store
    THEN LET announcement == m_Store[announcementID]
             st == IF announcement.m_Type = "SRGRegistration"
                   THEN deleted(m, announcement.m_ID)
                   ELSE IF announcement.m_Type = "Pattern"
                   THEN deletePattern(m, announcement.m_Name)
                   ELSE deleteQuery(m, announcement.m_Name)
         IN [m |-> st.m, threw |-> st.threw,
             m_Store |-> IF st.threw THEN m_Store
                         ELSE [i \in DOMAIN m_Store \ {announcementID} |-> m_Store[i]]]
    ELSE LET st == deletePattern(m, subgraphName)
         IN [m |-> st.m, threw |-> st.threw, m_Store |-> m_Store]

\* AnnouncementRepository::addAnnouncement (lines 63-72), after the manager
\* has registered the subgraph and become m
addAnnouncement(m, m_Store, announcement) ==
    IF announcement.m_ID \in DOMAIN m_Store
    THEN [m |-> m, threw |-> TRUE, m_Store |-> m_Store]
    ELSE [m |-> m, threw |-> FALSE, m_Store |-> Put(m_Store, announcement.m_ID, announcement)]

\* UTQLSRGManager::applyAllPatterns (lines 921-935): the patterns of the list
\* one after the other
RECURSIVE applyAllPatterns(_, _)
applyAllPatterns(m, patterns) ==
    LET applied == applyMatches(m, Head(patterns),
                       matchPattern(m, ManagerPatterns[Head(patterns)]))
    IN IF patterns = << >> THEN m
       ELSE IF applied.patternApplicationID >= m.patternApplicationID
       THEN applyAllPatterns(applied, Tail(patterns))
       ELSE m

\* the passes of recomputeAllQueries; UTQLServer.h line 384
MaxPasses == 10

\* the loop of UTQLServer::recomputeAllQueries (lines 381-386) from pass i on;
\* applyAllPatterns returns the number of instances it has created
RECURSIVE applyPasses(_, _)
applyPasses(m, i) ==
    LET applied == applyAllPatterns(m, m.m_Patterns)
    IN IF i >= MaxPasses THEN m
       ELSE IF applied.patternApplicationID = m.patternApplicationID THEN applied
       ELSE applyPasses(applied, i + 1)

InitServer ==
    /\ Constructed /\ nMaxQueueLength = PortCaps /\ NetworkConstructed
    /\ NoTrigger /\ NoPorts /\ NoMatcher /\ NoGraph /\ NoTcp
    /\ mgr = InitManager
    /\ srv = ServerConstructed

\* UTQLServer::processAnnouncement (lines 79-134). The walks through the edge
\* lists of a stale node are undefined and not followed.
processAnnouncement(a) ==
    /\ a.m_Type \in {"Pattern", "Query"} =>
           Len(mgr.m_Patterns) + Len(mgr.m_ActiveQueries) < MaxListed
    /\ a.m_Type = "Deletion" => mgr.stale = {}
    /\ LET st == IF a.m_Type = "SRGRegistration"
                 THEN addAnnouncement(registered(mgr, a.body), srv.m_Store, a)
                 ELSE IF a.m_Type = "Pattern"
                 THEN addAnnouncement([mgr EXCEPT !.m_Patterns = Append(@, a.m_Name)],
                                      srv.m_Store, a)
                 ELSE IF a.m_Type = "Query"
                 THEN addAnnouncement([mgr EXCEPT !.m_ActiveQueries = Append(@, a.m_Name)],
                                      srv.m_Store, a)
                 ELSE deleteAnnouncement(mgr, srv.m_Store, a.m_ID, a.m_Name)
       IN /\ mgr' = st.m
          /\ srv' = [srv EXCEPT !.m_Store = st.m_Store,
                                !.call = [m_Type |-> a.m_Type, threw |-> st.threw]]
    /\ UNCHANGED << vars, dfnVars, tc, ports, pm, graph, tcp >>

\* UTQLServer::recomputeAllQueries (lines 381-392); processQueries() changes
\* neither the SRG nor the repository
recomputeAllQueries(cap) ==
    /\ mgr.stale = {}
    /\ LET m == applyPasses(mgr, 0)
       IN /\ m.patternApplicationID <= FirstApplicationID + cap
          /\ mgr' = m
    /\ srv' = [srv EXCEPT !.call = [m_Type |-> "recompute", threw |-> FALSE]]
    /\ UNCHANGED << vars, dfnVars, tc, ports, pm, graph, tcp >>

\* UTQLSRGManager::applyAllPatterns() (lines 921-935) called once more
applyAllPatternsAgain(cap) ==
    /\ mgr.stale = {}
    /\ LET m == applyAllPatterns(mgr, mgr.m_Patterns)
       IN /\ m.patternApplicationID <= FirstApplicationID + cap
          /\ mgr' = Called("applyAllPatterns", 0, FALSE, m)
    /\ UNCHANGED << vars, dfnVars, tc, ports, pm, graph, srv, tcp >>

NextServer ==
    \/ \E a \in ClientSubgraphs : processAnnouncement(a)
    \/ recomputeAllQueries(MaxApplied)

SpecServer == InitServer /\ [][NextServer]_allVars

\* the manager after the client has announced the base SRGs of bases and then
\* the patterns of the list patterns, one after the other
RECURSIVE Announced(_, _, _)
Announced(m, bases, patterns) ==
    IF bases # << >> THEN Announced(registered(m, Head(bases)), Tail(bases), patterns)
    ELSE [m EXCEPT !.m_Patterns = patterns]

\* the pattern lists: inversion and concatenation, and the first n conversion
\* patterns registered from the last one to the first one, or from the first
\* one to the last one
PatternLists ==
    { << >>, << 1 >>, << 2 >>, << 1, 2 >>, << 2, 1 >> }
    \cup { [i \in 1..n |-> Len(BasicPatterns) + n + 1 - i] : n \in 1..MaxStages }
    \cup { [i \in 1..n |-> Len(BasicPatterns) + i] : n \in 1..MaxStages }

InitFixpoint ==
    /\ Constructed /\ nMaxQueueLength = PortCaps /\ NetworkConstructed
    /\ NoTrigger /\ NoPorts /\ NoMatcher /\ NoGraph /\ NoTcp
    /\ \E bases \in { << 1 >>, << 2 >>, << 1, 2 >> }, patterns \in PatternLists :
           /\ mgr = Announced(InitManager, bases, patterns)
           /\ srv = [ServerConstructed EXCEPT !.m_Store =
                         [id \in { BaseSrgs[bases[i]].id : i \in 1..Len(bases) }
                                  \cup { PatternID(patterns[i]) : i \in 1..Len(patterns) } |->
                             IF \E i \in 1..Len(bases) : BaseSrgs[bases[i]].id = id
                             THEN SrgAnnouncement(CHOOSE b \in 1..Len(BaseSrgs) :
                                                  /\ BaseSrgs[b].id = id
                                                  /\ \E i \in 1..Len(bases) : bases[i] = b)
                             ELSE PatternAnnouncement(id - PatternID(0))]]

NextFixpoint ==
    \/ recomputeAllQueries(MaxStages + 1)
    \/ applyAllPatternsAgain(MaxStages + 1)

SpecFixpoint == InitFixpoint /\ [][NextFixpoint]_allVars

---------------------------------------------------------------------------
(* The delta sent to the clients: UTQLServer::incrementalCompareDataflows  *)

\* the DataflowConfiguration of the subgraph with an id: the instances of a
\* pattern that only describes a part of the world have none ("")
Configuration(subgraphID) == IF subgraphID = 1 THEN "" ELSE "UbitrackLib"

\* a subgraph of a query response: it has two nodes and one input edge, which
\* refers to an edge of the subgraph with the next smaller id (0: no reference)
ResponseSubgraph(subgraphID) ==
    [m_ID |-> subgraphID, m_Name |-> PatternID(subgraphID),
     m_Nodes |-> {"A", "B"},
     m_Edges |-> { [m_EdgeReference |-> subgraphID - 1, remotePatternID |-> 0] },
     m_DataflowConfiguration |-> Configuration(subgraphID)]

\* new UTQLSubgraph() with m_Name = m_ID = the old id (lines 327-329)
deletedSubgraph(subgraphID) ==
    [m_ID |-> subgraphID, m_Name |-> subgraphID, m_Nodes |-> {}, m_Edges |-> {},
     m_DataflowConfiguration |-> ""]

\* the responses of a round: for some clients a list of query responses, each
\* the list m_Graphs, here of subgraph ids
GraphLists(ids) == UNION { [1..n -> ids] : n \in 0..MaxGraphs }
QueryLists(ids) == UNION { [1..n -> GraphLists(ids)] : n \in 0..MaxResponses }
Responses(clients, ids) == UNION { [cs -> QueryLists(ids)] : cs \in SUBSET clients }

\* the loop over the subgraphs of one query response (lines 257-276), for one
\* client: st holds the client's document and its set in newState, running
\* is the client's set in m_pClientDataflowState
RECURSIVE addGraphs(_, _, _, _)
addGraphs(st, running, m_Graphs, i) ==
    IF i > Len(m_Graphs) THEN st
    ELSE LET subgraphID == m_Graphs[i]
         IN IF subgraphID \in st.newState
            THEN addGraphs(st, running, m_Graphs, i + 1)
            ELSE IF subgraphID \in running
            THEN addGraphs([st EXCEPT !.newState = @ \cup {subgraphID}], running, m_Graphs, i + 1)
            ELSE addGraphs([document |-> Append(st.document, ResponseSubgraph(subgraphID)),
                            newState |-> st.newState \cup {subgraphID}],
                           running, m_Graphs, i + 1)

\* the loop over the query responses of one client (lines 254-277)
RECURSIVE addResponses(_, _, _, _)
addResponses(st, running, queryList, q) ==
    IF q > Len(queryList) THEN st
    ELSE addResponses(addGraphs(st, running, queryList[q], 1), running, queryList, q + 1)

\* the second loop (lines 281-306): an input edge whose reference names a
\* subgraph that does not run on the client keeps the reference in attributes
removeRemoteReferences(subgraph, rClientState) ==
    [subgraph EXCEPT !.m_Edges =
        { IF rEdge.m_EdgeReference # 0 /\ rEdge.m_EdgeReference \notin rClientState
          THEN [rEdge EXCEPT !.remotePatternID = rEdge.m_EdgeReference]
          ELSE rEdge : rEdge \in @ }]

\* the third loop (lines 310-337) for one client: an empty subgraph for every
\* running id that is not in the new state, in the order of the std::set
deletedSubgraphs_Kept(running, newHasClient, newState) == << >>
deletedSubgraphs(running, newHasClient, newState) ==
    LET gone == SortedIds({ id \in running : ~ newHasClient \/ id \notin newState })
    IN [i \in 1..Len(gone) |-> deletedSubgraph(gone[i])]

\* what the set of a client in a map of sets is after operator[]
SetOf(state, clientID) == IF clientID \in DOMAIN state THEN state[clientID] ELSE {}

\* incrementalCompareDataflows (lines 236-344): the new state has an entry for
\* every client of the responses (operator[] at lines 262 and 283)
incrementalCompareDataflows(responses) ==
    LET old == srv.m_pClientDataflowState
        first == [clientID \in DOMAIN responses |->
                     addResponses([document |-> << >>, newState |-> {}],
                                  SetOf(old, clientID), responses[clientID], 1)]
        newState == [clientID \in DOMAIN responses |-> first[clientID].newState]
        sent == [clientID \in DOMAIN responses |->
                    [i \in 1..Len(first[clientID].document) |->
                        removeRemoteReferences(first[clientID].document[i], newState[clientID])]]
        pNewQueryDistribution ==
            [clientID \in DOMAIN responses \cup DOMAIN old |->
                (IF clientID \in DOMAIN responses THEN sent[clientID] ELSE << >>)
                \o deletedSubgraphs(SetOf(old, clientID), clientID \in DOMAIN newState,
                                    SetOf(newState, clientID))]
    IN /\ srv' = [srv EXCEPT !.m_pClientDataflowState = newState,
                             !.document = pNewQueryDistribution,
                             !.call = [m_Type |-> "compare", threw |-> FALSE,
                                       requested |->
                                           [clientID \in DOMAIN responses |->
                                               UNION { Range(responses[clientID][q]) :
                                                           q \in 1..Len(responses[clientID]) } ]]]
       /\ UNCHANGED << vars, dfnVars, tc, ports, pm, mgr, graph, tcp >>

InitCompare ==
    /\ Constructed /\ nMaxQueueLength = PortCaps /\ NetworkConstructed
    /\ NoTrigger /\ NoPorts /\ NoMatcher /\ NoManager /\ NoGraph /\ NoTcp
    /\ srv = ServerConstructed

NextCompare ==
    \E responses \in Responses(1..MaxClients, 1..MaxSubgraphIDs) :
        incrementalCompareDataflows(responses)

SpecCompare == InitCompare /\ [][NextCompare]_allVars

---------------------------------------------------------------------------
(* The TCP connection: TcpConnection.cpp. One connection object receives   *)
(* what its peer writes: the peer is another TcpConnection whose send() is *)
(* called, or a foreign program that writes headers of its own.            *)

\* g_nMaxPacketSize (TcpConnection.cpp line 47)
g_nMaxPacketSize == 1024 * 1024

\* the byte values: 0..15 stand for the characters '0'..'9', 'A'..'F', and
\* NoDigit for a character that strtoul does not accept
NoDigit == 16

\* a BufferType or a part of the byte stream is a list of runs of equal bytes,
\* in which two neighbours never have the same byte
Run(byte, count) == [byte |-> byte, count |-> count]
RECURSIVE Bytes(_)
Bytes(buf) == IF buf = << >> THEN 0 ELSE Head(buf).count + Bytes(Tail(buf))

\* the bytes of buf followed by count times byte
Write(buf, byte, count) ==
    IF count = 0 THEN buf
    ELSE IF buf # << >> /\ buf[Len(buf)].byte = byte
    THEN [buf EXCEPT ![Len(buf)].count = @ + count]
    ELSE Append(buf, Run(byte, count))

RECURSIVE WriteAll(_, _)
WriteAll(buf, more) ==
    IF more = << >> THEN buf
    ELSE WriteAll(Write(buf, Head(more).byte, Head(more).count), Tail(more))

\* the first n bytes of the stream, and the stream without them
RECURSIVE Take(_, _)
Take(stream, n) ==
    IF n = 0 \/ stream = << >> THEN << >>
    ELSE IF Head(stream).count <= n
    THEN << Head(stream) >> \o Take(Tail(stream), n - Head(stream).count)
    ELSE << Run(Head(stream).byte, n) >>
RECURSIVE Drop(_, _)
Drop(stream, n) ==
    IF n = 0 \/ stream = << >> THEN stream
    ELSE IF Head(stream).count <= n
    THEN Drop(Tail(stream), n - Head(stream).count)
    ELSE << Run(Head(stream).byte, Head(stream).count - n) >> \o Tail(stream)

\* the characters of a short buffer one by one
RECURSIVE Chars(_)
Chars(buf) ==
    IF buf = << >> THEN << >>
    ELSE [i \in 1..Head(buf).count |-> Head(buf).byte] \o Chars(Tail(buf))

\* TcpConnection::makeSize (lines 146-151): sprintf "%08X" writes the value as
\* hexadecimal digits, padded with zeros to 8 digits, of which the first 8
\* are kept. The sizes that reach makeSize have passed checkSize, so they
\* have no more than 6 digits.
makeSize_Decimal(nSize) == [i \in 1..8 |-> (nSize \div (10 ^ (8 - i))) % 10]
makeSize(nSize) == [i \in 1..8 |-> (nSize \div (16 ^ (8 - i))) % 16]

\* strtoul( m_receivePacketSize, &dummy, 16 ) (line 184): the digits up to the
\* first character that is none
RECURSIVE strtoul(_, _, _)
strtoul(chars, i, acc) ==
    IF i > Len(chars) \/ chars[i] = NoDigit THEN acc
    ELSE strtoul(chars, i + 1, acc * 16 + chars[i])

\* the test of TcpConnection::checkSize (line 157)
checkSize(nSize) == ~ (nSize > g_nMaxPacketSize)

\* the payloads passed to send(): empty, one byte, eight bytes that read like
\* a header, two different bytes, the largest payload and one byte more
Payloads ==
    { << >>, << Run(0, 1) >>, << Run(0, 8) >>, << Run(1, 1), Run(NoDigit, 1) >>,
      << Run(NoDigit, g_nMaxPacketSize) >>, << Run(NoDigit, g_nMaxPacketSize + 1) >> }

\* the headers that a foreign peer writes: 00100001 and 7FFFFFFF
ForeignHeaders == { makeSize(g_nMaxPacketSize + 1), [i \in 1..8 |-> IF i = 1 THEN 7 ELSE 15] }

\* TcpConnection::TcpConnection (lines 50-62) on an open socket: no handler
\* yet, a size read is started. peerBad is m_bBadSocket of the peer's
\* connection object; stream holds the bytes written and not yet read, reset
\* whether the connection was reset; sent, received and oversized record the
\* payloads passed to send(), the buffers passed to the receive handler and
\* whether a header announced more than g_nMaxPacketSize.
TcpConstructed ==
    [m_bBadSocket |-> FALSE, m_readHandler |-> FALSE, read |-> "size", nSize |-> 0,
     socket |-> "open", peerBad |-> FALSE, stream |-> << >>, reset |-> FALSE,
     sent |-> << >>, received |-> << >>, oversized |-> FALSE, foreign |-> 0]

\* TcpConnection::send of the peer (lines 65-108)
send(data) ==
    /\ Len(tcp.sent) < MaxSent
    /\ tcp' = IF ~ checkSize(Bytes(data))
              THEN [tcp EXCEPT !.peerBad = TRUE, !.sent = Append(@, data)]
              ELSE IF tcp.reset
              THEN [tcp EXCEPT !.peerBad = TRUE, !.sent = Append(@, data)]
              ELSE LET sSize == makeSize(Bytes(data))
                   IN [tcp EXCEPT !.stream = WriteAll(WriteAll(@, [i \in 1..8 |-> Run(sSize[i], 1)]), data),
                                  !.sent = Append(@, data)]
    /\ UNCHANGED << vars, dfnVars, tc, ports, pm, mgr, graph, srv >>

\* a foreign peer writes a header of its own
foreignWrite(header) ==
    /\ tcp.foreign < MaxForeign
    /\ ~ tcp.reset
    /\ tcp' = [tcp EXCEPT !.stream = WriteAll(@, [i \in 1..8 |-> Run(header[i], 1)]),
                          !.foreign = @ + 1]
    /\ UNCHANGED << vars, dfnVars, tc, ports, pm, mgr, graph, srv >>

\* TcpConnection::setReceiver (lines 111-114)
setReceiver ==
    /\ ~ tcp.m_readHandler
    /\ tcp' = [tcp EXCEPT !.m_readHandler = TRUE]
    /\ UNCHANGED << vars, dfnVars, tc, ports, pm, mgr, graph, srv >>

\* the connection is reset: writes throw, reads that cannot be completed from
\* the bytes that have arrived end with an error
connectionReset ==
    /\ ~ tcp.reset
    /\ tcp' = [tcp EXCEPT !.reset = TRUE]
    /\ UNCHANGED << vars, dfnVars, tc, ports, pm, mgr, graph, srv >>

\* TcpConnection::handleSizeRead (lines 168-195), called when the 8 bytes of
\* readSize() have arrived or the read has failed
handleSizeRead(error) ==
    /\ tcp.read = "size"
    /\ IF error THEN tcp.reset /\ Bytes(tcp.stream) < 8 ELSE Bytes(tcp.stream) >= 8
    /\ tcp' = IF error
              THEN [tcp EXCEPT !.m_bBadSocket = TRUE, !.read = "none"]
              ELSE LET nSize == strtoul(Chars(Take(tcp.stream, 8)), 1, 0)
                       rest == Drop(tcp.stream, 8)
                   IN IF ~ checkSize(nSize)
                      THEN [tcp EXCEPT !.m_bBadSocket = TRUE, !.read = "none",
                                       !.stream = rest, !.oversized = TRUE]
                      ELSE IF nSize = 0
                      THEN [tcp EXCEPT !.stream = rest]
                      ELSE [tcp EXCEPT !.stream = rest, !.read = "data", !.nSize = nSize]
    /\ UNCHANGED << vars, dfnVars, tc, ports, pm, mgr, graph, srv >>

\* TcpConnection::handleDataRead (lines 198-227), called when the nSize bytes
\* of readData() have arrived or the read has failed; calling an empty
\* m_readHandler throws boost::bad_function_call, a std::runtime_error, which
\* is caught at line 218
handleDataRead(error) ==
    /\ tcp.read = "data"
    /\ IF error THEN tcp.reset /\ Bytes(tcp.stream) < tcp.nSize
                ELSE Bytes(tcp.stream) >= tcp.nSize
    /\ tcp' = IF error
              THEN [tcp EXCEPT !.m_bBadSocket = TRUE, !.read = "none"]
              ELSE [tcp EXCEPT !.received = IF tcp.m_readHandler
                                            THEN Append(@, Take(tcp.stream, tcp.nSize))
                                            ELSE @,
                               !.stream = Drop(@, tcp.nSize),
                               !.read = "size", !.nSize = 0]
    /\ UNCHANGED << vars, dfnVars, tc, ports, pm, mgr, graph, srv >>

\* the connection after setReceiver(), as the owner of a new connection
\* leaves it before it lets the io_service run
InitFraming ==
    /\ Constructed /\ nMaxQueueLength = PortCaps /\ NetworkConstructed
    /\ NoTrigger /\ NoPorts /\ NoMatcher /\ NoManager /\ NoGraph /\ NoServer
    /\ tcp = [TcpConstructed EXCEPT !.m_readHandler = TRUE]

NextFraming ==
    \/ \E data \in Payloads : send(data)
    \/ connectionReset
    \/ \E error \in BOOLEAN : handleSizeRead(error)
    \/ \E error \in BOOLEAN : handleDataRead(error)

SpecFraming == InitFraming /\ [][NextFraming]_allVars

InitTcp ==
    /\ Constructed /\ nMaxQueueLength = PortCaps /\ NetworkConstructed
    /\ NoTrigger /\ NoPorts /\ NoMatcher /\ NoManager /\ NoGraph /\ NoServer
    /\ tcp = TcpConstructed

NextTcp ==
    \/ NextFraming
    \/ setReceiver
    \/ \E header \in ForeignHeaders : foreignWrite(header)

SpecTcp == InitTcp /\ [][NextTcp]_allVars

---------------------------------------------------------------------------
(* The graph container: Graph.h                                            *)

\* Graph::Graph(): empty maps; edges holds the Edge objects that were created,
\* in the order of their creation. A reset weak pointer to a node is 0.
GraphObject ==
    [m_Nodes |-> << >>, m_Edges |-> << >>, edges |-> << >>, crashed |-> FALSE,
     call |-> [op |-> "none", threw |-> FALSE]]

\* weak_ptr::lock() of a pointer to the Edge object e is not null: the object
\* exists while the edge map or the caller holds a shared_ptr to it
lock(g, e) == g.edges[e].held \/ \E n \in DOMAIN g.m_Edges : g.m_Edges[n] = e

\* the loops of removeEdge (lines 352-377): erase the first entry of the list
\* whose lock() is the edge
EraseEntry(g, list, e) ==
    LET hits == { i \in 1..Len(list) : lock(g, list[i]) /\ list[i] = e }
        first == CHOOSE i \in hits : \A j \in hits : i <= j
    IN IF hits = {} THEN list
       ELSE [i \in 1..(Len(list) - 1) |-> IF i < first THEN list[i] ELSE list[i + 1]]

\* Graph::removeEdge( EdgePtr ) (lines 347-389). m_Source.lock() gives the node
\* while the node map holds it. m_Edges.erase( m_Edges.end() ) is undefined:
\* with ub = "crash" the process ends, with ub = "skip" the map stays as it is.
Graph_unlinked(g, e, ub) ==
    LET source == g.edges[e].m_Source
        target == g.edges[e].m_Target
        g1 == IF source \notin DOMAIN g.m_Nodes THEN g
              ELSE [g EXCEPT !.m_Nodes[source].m_OutEdges = EraseEntry(g, @, e)]
        g2 == IF target \notin DOMAIN g.m_Nodes THEN g1
              ELSE [g1 EXCEPT !.m_Nodes[target].m_InEdges = EraseEntry(g, @, e)]
        g3 == [g2 EXCEPT !.edges[e].m_Source = 0, !.edges[e].m_Target = 0]
    IN IF g.edges[e].m_Name \in DOMAIN g.m_Edges
       THEN [g3 EXCEPT !.m_Edges = [n \in DOMAIN @ \ {g.edges[e].m_Name} |-> @[n]]]
       ELSE IF ub = "crash" THEN [g3 EXCEPT !.crashed = TRUE] ELSE g3

\* Graph::removeNode( NodePtr ) (lines 226-237); removeEdge of a null pointer
\* reads through it, which ends the process
RECURSIVE Graph_removedNodePtr(_, _, _)
Graph_removedNodePtr(g, v, ub) ==
    LET node == g.m_Nodes[v]
        front == IF node.m_OutEdges # << >> THEN node.m_OutEdges[1] ELSE node.m_InEdges[1]
    IN IF g.crashed THEN g
       ELSE IF node.m_OutEdges = << >> /\ node.m_InEdges = << >>
       THEN [g EXCEPT !.m_Nodes = [n \in DOMAIN @ \ {v} |-> @[n]]]
       ELSE IF ~ lock(g, front) THEN [g EXCEPT !.crashed = TRUE]
       ELSE Graph_removedNodePtr(Graph_unlinked(g, front, ub), v, ub)

\* Graph::size() and Graph::order() (lines 412-426)
size(g) == Cardinality(DOMAIN g.m_Edges)
order(g) == Cardinality(DOMAIN g.m_Nodes)

InitGraph ==
    /\ Constructed /\ nMaxQueueLength = PortCaps /\ NetworkConstructed
    /\ NoTrigger /\ NoPorts /\ NoMatcher /\ NoManager /\ NoServer /\ NoTcp
    /\ graph = GraphObject

\* Graph::addNode (lines 173-184)
Graph_addNode(nodeName) ==
    /\ ~ graph.crashed
    /\ graph' =
         IF nodeName \in DOMAIN graph.m_Nodes
         THEN [graph EXCEPT !.call = [op |-> "addNode", threw |-> TRUE]]
         ELSE [graph EXCEPT !.m_Nodes = Put(@, nodeName, [m_InEdges |-> << >>, m_OutEdges |-> << >>]),
                            !.call = [op |-> "addNode", threw |-> FALSE]]
    /\ UNCHANGED << vars, dfnVars, tc, ports, pm, mgr, srv, tcp >>

\* Graph::addEdge (lines 299-304 and 269-283); keep: the caller keeps the
\* returned pointer. std::map::insert leaves an entry of the same name alone.
Graph_addEdge(edgeName, source, target, keep) ==
    /\ ~ graph.crashed
    /\ Len(graph.edges) < MaxEdgeObjects
    /\ graph' =
         IF source \notin DOMAIN graph.m_Nodes \/ target \notin DOMAIN graph.m_Nodes
         THEN [graph EXCEPT !.call = [op |-> "addEdge", threw |-> TRUE]]
         ELSE LET newEdge == Len(graph.edges) + 1
                  created == [graph EXCEPT
                                  !.edges = Append(@, [m_Name |-> edgeName, m_Source |-> source,
                                                       m_Target |-> target, held |-> keep]),
                                  !.m_Edges = IF edgeName \in DOMAIN @ THEN @
                                              ELSE Put(@, edgeName, newEdge)]
                  listed == [created EXCEPT !.m_Nodes[source].m_OutEdges = Append(@, newEdge)]
              IN [listed EXCEPT !.m_Nodes[target].m_InEdges = Append(@, newEdge),
                                !.call = [op |-> "addEdge", threw |-> FALSE]]
    /\ UNCHANGED << vars, dfnVars, tc, ports, pm, mgr, srv, tcp >>

\* Graph::removeEdge( edgeName ) (lines 401-404)
Graph_removeEdge(edgeName, ub) ==
    /\ ~ graph.crashed
    /\ graph' =
         IF edgeName \notin DOMAIN graph.m_Edges
         THEN [graph EXCEPT !.call = [op |-> "removeEdge", threw |-> TRUE]]
         ELSE [Graph_unlinked(graph, graph.m_Edges[edgeName], ub) EXCEPT
                   !.call = [op |-> "removeEdge", threw |-> FALSE]]
    /\ UNCHANGED << vars, dfnVars, tc, ports, pm, mgr, srv, tcp >>

\* Graph::removeNode( nodeName ) (lines 251-254)
Graph_removeNode(nodeName, ub) ==
    /\ ~ graph.crashed
    /\ graph' =
         IF nodeName \notin DOMAIN graph.m_Nodes
         THEN [graph EXCEPT !.call = [op |-> "removeNode", threw |-> TRUE]]
         ELSE [Graph_removedNodePtr(graph, nodeName, ub) EXCEPT
                   !.call = [op |-> "removeNode", threw |-> FALSE]]
    /\ UNCHANGED << vars, dfnVars, tc, ports, pm, mgr, srv, tcp >>

NextGraph ==
    \/ \E n \in 1..MaxGraphNodes : Graph_addNode(n)
    \/ \E e \in 1..MaxGraphEdges, s, t \in 1..MaxGraphNodes, keep \in BOOLEAN :
           Graph_addEdge(e, s, t, keep)
    \/ \E e \in 1..MaxGraphEdges, ub \in {"crash", "skip"} : Graph_removeEdge(e, ub)
    \/ \E n \in 1..MaxGraphNodes, ub \in {"crash", "skip"} : Graph_removeNode(n, ub)

SpecGraph == InitGraph /\ [][NextGraph]_allVars

---------------------------------------------------------------------------
(* Properties *)

States == {state_running, state_stopping, state_stopped, state_end}
Events == 1..Len(ev)
EventsFor(r) == { i \in Events : RcvOf(ev, i) = r }
\* position of the invocation of event i in the order of handler invocations
Invocation(i) == CHOOSE k \in 1..Len(handled) : handled[k][1] = i

\* C1: two events for one receiver with identical priority, neither dropped nor
\* removed, have their handlers invoked in the order they were enqueued
C1_FifoEqualPriority ==
    \A e1, e2 \in Events :
        ( /\ e1 < e2
          /\ RcvOf(ev, e1) # NoReceiver
          /\ RcvOf(ev, e1) = RcvOf(ev, e2)
          /\ ev[e1].priority = ev[e2].priority
          /\ fate[e1] = "invoked"
          /\ fate[e2] = "invoked" )
        => Invocation(e1) < Invocation(e2)

\* C2: a receiver with cap K >= 0 and no queued events gets K+1 events in one
\* queue() call: once they are all settled, exactly one of them was dropped and
\* the other K were dispatched
C2_QueueCap ==
    \A r \in Receivers :
        ( /\ nMaxQueueLength[r] >= 0
          /\ calls = 1
          /\ Cardinality(EventsFor(r)) = nMaxQueueLength[r] + 1
          /\ \A i \in EventsFor(r) : fate[i] \in {"dropped", "invoked"} )
        => /\ Cardinality({ i \in EventsFor(r) : fate[i] = "dropped" }) = 1
           /\ Cardinality({ i \in EventsFor(r) : fate[i] = "invoked" }) = nMaxQueueLength[r]

\* C3: once a stop() has returned and until start() is called, the state is
\* stopped and the worker thread neither executes nor starts a handler
C3_StopQuiesces ==
    quiesced => /\ m_State = state_stopped
                /\ wpc \notin {"dispatch", "handler"}

\* a stop() that was called while the worker had an event in hand has
\* returned, and events are waiting in the queue
C3_Witness ==
    /\ quiesced
    /\ stopFoundHandler
    /\ \E k \in 1..Len(handled) : handled[k][2] = Worker
    /\ m_Queue # <<>>

\* thread t executes a handler of component c or a pull served by component c
ActiveIn(t, c) ==
    IF t = Worker
    THEN wpc = "handler" /\ CompOf(ev, wcur) = c
    ELSE \/ cpc[t] = "dn_handler" /\ CompOf(ev, ccur[t]) = c
         \/ cpc[t] = "pull" /\ pullComp[t] = c

\* C4: no two threads execute handlers of, or pulls served by, the same
\* component at the same time
C4_MutualExclusion ==
    \A c \in Components : \A t1, t2 \in Threads :
        t1 # t2 => ~ (ActiveIn(t1, c) /\ ActiveIn(t2, c))

\* the worker executes a handler of a component while a thread in dispatchNow()
\* holds an event for another port of the same component
C4_Witness ==
    /\ wpc = "handler"
    /\ \E t \in Clients :
          /\ cpc[t] = "dn_dispatch"
          /\ CompOf(ev, ccur[t]) # 0
          /\ CompOf(ev, ccur[t]) = CompOf(ev, wcur)
          /\ RcvOf(ev, ccur[t]) # RcvOf(ev, wcur)

\* C5: the worker thread never dies of an exception thrown by a handler
C5_WorkerNeverDies == wpc # "crashed"

\* C6: removeComponent(c) leaves no event routed to a port of c in the queue and
\* keeps all other events in their order
C6_RemoveComponent ==
    [][ \A c \in Components :
          removeComponent(c) =>
              LET Other(id) == CompOf(ev, id) # c
              IN /\ \A k \in 1..Len(m_Queue') : CompOf(ev, m_Queue'[k]) # c
                 /\ m_Queue' = SelectSeq(m_Queue, Other) ]_vars

\* removeComponent() has removed an event and left another one in the queue
C6_Witness ==
    /\ \E i \in Events : fate[i] = "removed"
    /\ m_Queue # <<>>

\* C7: a receiver with a positive cap K never has more than K events in the queue
C7_CapBoundsQueue ==
    \A r \in Receivers :
        nMaxQueueLength[r] > 0 => CountIn(m_Queue, ev, r) <= nMaxQueueLength[r]

\* C8: an event for a receiver with unlimited queue length is never dropped: it
\* is in the queue until it is taken for dispatch, removed or cleared
C8_MustNotDrop ==
    \A i \in Events :
        (RcvOf(ev, i) # NoReceiver /\ nMaxQueueLength[RcvOf(ev, i)] < 0)
        => /\ fate[i] # "dropped"
           /\ fate[i] = "queued" => i \in Range(m_Queue)

\* more events for the Button port are queued than a default port may hold
C8_Witness == CountIn(m_Queue, ev, 2) > g_defaultMaxQueueLength

\* C9 as stated: a queue() call between the return of stop() and the next
\* start() adds no event to the queue
C9_StoppedQueueRefuses ==
    quiesced => \A i \in deferred : i \notin Range(m_Queue)

\* C9 amended: the events of such a call are queued as usual, and the worker
\* thread takes none of them until start() is called
C9_StoppedQueueDefers ==
    \A i \in deferred :
        /\ fate[i] \in {"queued", "dropped", "removed", "cleared"}
        /\ fate[i] = "queued" <=> i \in Range(m_Queue)
        /\ wcur # i

\* an event passed to queue() after stop() has returned is in the queue
C9_Witness ==
    /\ quiesced
    /\ \E i \in deferred : i \in Range(m_Queue)

\* C10: m_State changes only along stopped -> running -> stopping -> stopped,
\* and to end, which is final
AllowedTransitions ==
    { << state_stopped, state_running >>,
      << state_running, state_stopping >>,
      << state_stopping, state_stopped >> }
    \cup { << s, state_end >> : s \in States \ {state_end} }

C10_StateMachine ==
    [][ m_State' # m_State => << m_State, m_State' >> \in AllowedTransitions ]_vars

\* the components of N that are left when components without a connection
\* from a component of N are taken away one by one: empty iff there is no cycle
RECURSIVE OnCycles(_)
OnCycles(N) ==
    IF \E c \in N : \A x \in m_inConnectionMap[c] : SourceOf(x) \notin N
    THEN OnCycles(N \ {CHOOSE c \in N : \A x \in m_inConnectionMap[c] : SourceOf(x) \notin N})
    ELSE N
\* connections that all lead from a lower to a higher name form no cycle
Ascending == \A x \in m_allConnections : SourceOf(x) < DestinationOf(x)
Acyclic == IF Ascending THEN TRUE ELSE OnCycles(m_componentIDMap) = {}

\* C11: after assignEventPriorities() on an acyclic network of any size, the
\* event priority of the source component of every connection is strictly
\* smaller than the event priority of its destination component
C11_PriorityDag ==
    (aep.pc = "done" /\ Acyclic) =>
        \A x \in m_allConnections : eventPriority[SourceOf(x)] < eventPriority[DestinationOf(x)]


\* C12: compute( t ) is only invoked when every push port of trigger group 0 has
\* received a measurement and holds one with timestamp exactly t, and every pull
\* port of the group was just pulled at t successfully; with two push inputs
\* and a push output the pushes (100, 100) lead to exactly one compute at 100
\* and the pushes (100, 101) to none
C12_FiringRule ==
    [][ /\ tc'.computed # tc.computed =>
              LET t == tc'.computed[Len(tc'.computed)]
              IN \A i \in DOMAIN tc.m_ports :
                     IF tc.m_ports[i]
                     THEN tc'.received[i] /\ tc'.m_timestamp[i] = t
                     ELSE tc'.pulled[i] = [t |-> t, ok |-> TRUE]
        /\ (tc.m_ports = << TRUE, TRUE >> /\ tc.m_bPushOutput) =>
              /\ tc'.pushed = << << 1, 100 >>, << 2, 100 >> >> => tc'.computed = << 100 >>
              /\ tc'.pushed = << << 1, 100 >>, << 2, 101 >> >> => tc'.computed = << >>
      ]_allVars

\* C13: when the trigger group cannot fire, compute is skipped and no error
\* leaves the component, neither on a push nor on a pull request
C13_FailedFireSilent ==
    [][ (tc' # tc /\ ~ tc'.call.fired) =>
            (tc'.computed = tc.computed /\ ~ tc'.call.threw) ]_allVars

\* C13 (amended): when the trigger group cannot fire, compute is skipped; a push
\* returns without an error and a pull request ends with an exception
C13_FailedFire ==
    [][ (tc' # tc /\ ~ tc'.call.fired) =>
            /\ tc'.computed = tc.computed
            /\ tc'.call.threw <=> (tc'.call.op = "pull") ]_allVars

\* C13: a pull request found a push port with another timestamp and threw
\* without a compute
C13_Witness ==
    /\ tc.call.op = "pull" /\ tc.call.threw
    /\ \E i \in DOMAIN tc.m_ports : tc.m_ports[i] /\ tc.m_timestamp[i] # tc.call.t
    /\ tc.computed = << >>

\* C14: when connectComponents() fails because the connect of the first
\* endpoint succeeded and the connect of the second endpoint threw, the first
\* endpoint does not reference the second afterwards and m_allConnections,
\* m_inConnectionMap and m_outConnectionMap are what they were before the call
C14_ConnectRollback ==
    [][ (ports'.n # ports.n /\ ports'.call.result = "second failed") =>
            /\ ~ References(ports'.st, ports'.call.src, ports'.call.dst)
            /\ m_allConnections' = m_allConnections
            /\ m_inConnectionMap' = m_inConnectionMap
            /\ m_outConnectionMap' = m_outConnectionMap ]_allVars

\* C14: a connectComponents() call was rolled back while other connections exist
C14_Witness ==
    /\ ports.call.result = "second failed"
    /\ PortTable[ports.call.src].kind = "PushSupplier"
    /\ m_allConnections # {}

\* C15: connectComponents() on two ports that have no event type in common, or
\* on a supplier of one mode and a consumer of the other mode, fails and
\* records no connection
C15_OnlyMatchedPairs ==
    [][ (ports'.n # ports.n /\ ports'.call.op = "connect") =>
            LET src == ports'.call.src
                dst == ports'.call.dst
            IN (\/ EventTypes(src) \cap EventTypes(dst) = {}
                \/ /\ IsSupplier(src) # IsSupplier(dst)
                   /\ PortTable[src].push # PortTable[dst].push)
               => /\ ports'.call.result # "connected"
                  /\ m_allConnections' = m_allConnections ]_allVars

\* the matchings that checkPattern returned
Returned == IF pm # << >> /\ pm.returned THEN pm.detectedMatches ELSE << >>
Injective(f) == \A a, b \in DOMAIN f : f[a] = f[b] => a = b

\* C16: every matching that the pattern matcher returns is injective on the
\* edges and on the nodes: no two distinct pattern edges are mapped to the same
\* SRG edge and no two distinct pattern nodes to the same SRG node, also for an
\* SRG with parallel edges or self loops.
C16_MatcherInjective ==
    \A k \in 1..Len(Returned) :
        /\ Injective(Returned[k].m_edgeForwardMap)
        /\ Injective(Returned[k].m_vertexForwardMap)

\* the matching m maps the input node n of the pattern to an SRG node that
\* satisfies the predicates of n
NodeSound(m, n) ==
    /\ n \in DOMAIN m.m_vertexForwardMap
    /\ isCompatible(pm.p.nodes[n], pm.srg.nodes[m.m_vertexForwardMap[n]].attrs)

\* the matching m maps the input edge e of the pattern to an SRG edge that
\* satisfies the predicates of e
EdgeSound(m, e) ==
    /\ e \in DOMAIN m.m_edgeForwardMap
    /\ isCompatible(pm.p.edges[e].x, Attrs("", pm.srg.edges[m.m_edgeForwardMap[e]].x))

\* the matching m maps the source and the target of the pattern edge e to the
\* source and the target of its SRG edge
EndsPreserved(m, e) ==
    /\ e \in DOMAIN m.m_edgeForwardMap
    /\ pm.p.edges[e].src \in DOMAIN m.m_vertexForwardMap
    /\ pm.p.edges[e].dst \in DOMAIN m.m_vertexForwardMap
    /\ m.m_vertexForwardMap[pm.p.edges[e].src] = pm.srg.edges[m.m_edgeForwardMap[e]].src
    /\ m.m_vertexForwardMap[pm.p.edges[e].dst] = pm.srg.edges[m.m_edgeForwardMap[e]].dst

\* C17: in every matching that the matcher returns, each input node and each
\* input edge of the pattern is mapped to an SRG node or edge that satisfies
\* all of its predicates, also when the node was found by an id-pinned step of
\* the search plan, and the source and target of each pattern edge are mapped
\* to the source and target of its SRG edge.
C17_MatcherSound ==
    \A k \in 1..Len(Returned) :
        /\ \A n \in 1..Len(pm.p.nodes) : NodeSound(Returned[k], n)
        /\ \A e \in 1..Len(pm.p.edges) : EdgeSound(Returned[k], e) /\ EndsPreserved(Returned[k], e)

\* the injective embeddings of the input nodes and edges of the pattern into
\* the SRG that satisfy all predicates, as matchings
Embeddings ==
    { m \in [m_vertexForwardMap : [1..Len(pm.p.nodes) -> 1..Len(pm.srg.nodes)],
             m_edgeForwardMap : [1..Len(pm.p.edges) -> 1..Len(pm.srg.edges)]] :
        /\ Injective(m.m_vertexForwardMap)
        /\ Injective(m.m_edgeForwardMap)
        /\ \A n \in 1..Len(pm.p.nodes) : NodeSound(m, n)
        /\ \A e \in 1..Len(pm.p.edges) : EdgeSound(m, e) /\ EndsPreserved(m, e) }

\* the positions of the embedding m in the returned matchings
Occurrences(m) ==
    { k \in 1..Len(Returned) :
        /\ Returned[k].m_vertexForwardMap = m.m_vertexForwardMap
        /\ Returned[k].m_edgeForwardMap = m.m_edgeForwardMap }

\* C18: for any pattern and any SRG, every injective embedding of the input
\* nodes and edges of the pattern into the SRG that satisfies all predicates
\* is returned by the matcher, and it is returned exactly once.
C18_MatcherComplete ==
    (pm # << >> /\ pm.returned) =>
        \A m \in Embeddings : Cardinality(Occurrences(m)) = 1

\* the subgraphs of the repository of m that used an output edge of a subgraph
\* in D as input (the m_EdgeReference of an input edge names the producing
\* subgraph), directly or through a chain of instances, together with D
RECURSIVE DependentSubgraphs(_, _)
DependentSubgraphs(m, D) ==
    LET users == { j \in DOMAIN m.m_GraphRepository :
                       \E r \in m.m_GraphRepository[j].inputs : r[1] \in D }
    IN IF users \subseteq D THEN D ELSE DependentSubgraphs(m, D \cup users)

C20_ProvenanceClosure ==
    mgr.call.op = "applyPattern" =>
        \A id \in mgr.call.created :
            /\ \A o \in mgr.m_GraphRepository[id].outputs : EdgeName(id, o) \in DOMAIN mgr.m_Edges
            /\ \A n \in DOMAIN mgr.m_Edges :
                   mgr.m_Edges[n].m_SubgraphID = id =>
                       mgr.m_Edges[n].m_InformationSources =
                           UNION { mgr.m_Edges[r].m_InformationSources :
                                       r \in mgr.m_GraphRepository[id].inputs }

\* C20 witness: applyPattern has created an instance with two input edges, one
\* of them itself derived, and its output edge carries the information
\* sources of both.
C20_Witness ==
    /\ mgr.call.op = "applyPattern"
    /\ \E id \in mgr.call.created :
           /\ Cardinality(mgr.m_GraphRepository[id].inputs) = 2
           /\ \E r \in mgr.m_GraphRepository[id].inputs : r[1] > Len(BaseSrgs)
           /\ \E n \in DOMAIN mgr.m_Edges :
                  /\ mgr.m_Edges[n].m_SubgraphID = id
                  /\ Cardinality(mgr.m_Edges[n].m_InformationSources) >= 2

\* C21: no pattern instance is ever applied whose matching contains two
\* distinct input edges that share an information source; with a base edge
\* A -> B, the edge B -> A derived from it by inversion and the pattern
\* inv(X)*X, the self-match is rejected and no edge A -> A is ever in the SRG.
C21_DisjointInputs ==
    /\ \A id \in DOMAIN mgr.m_GraphRepository :
           \A r1, r2 \in mgr.m_GraphRepository[id].inputs :
               r1 # r2 =>
                   mgr.m_Edges[r1].m_InformationSources
                       \cap mgr.m_Edges[r2].m_InformationSources = {}
    /\ \A n \in DOMAIN mgr.m_Edges : mgr.m_Edges[n].m_Source # mgr.m_Edges[n].m_Target

\* C21 witness: the pattern inv(X)*X was applied while the SRG held the base
\* edge 1 -> 2 and an edge 2 -> 1 derived from it alone, and no instance was
\* created.
C21_Witness ==
    /\ mgr.call.op = "applyPattern" /\ mgr.call.id = 3 /\ mgr.call.created = {}
    /\ EdgeName(1, 1) \in DOMAIN mgr.m_Edges
    /\ \E n \in DOMAIN mgr.m_Edges :
           /\ mgr.m_Edges[n].m_Source = 2 /\ mgr.m_Edges[n].m_Target = 1
           /\ mgr.m_Edges[n].m_InformationSources = {EdgeName(1, 1)}

\* the Edge objects that a node of the graph lists
Listed(g) ==
    UNION { { g.m_Nodes[v].m_InEdges[i] : i \in 1..Len(g.m_Nodes[v].m_InEdges) }
                \cup { g.m_Nodes[v].m_OutEdges[i] : i \in 1..Len(g.m_Nodes[v].m_OutEdges) } :
            v \in DOMAIN g.m_Nodes }

\* C22: after any sequence of addNode, addEdge, removeEdge and removeNode
\* calls, addEdge with a name already in use included, every edge listed in a
\* node's in-edge or out-edge list is a live edge of the edge map, every edge in
\* the map has both endpoints in the node map, and size() and order() are the
\* numbers of live edges and of nodes.
C22_GraphIntegrity ==
    ~ graph.crashed =>
        /\ \A e \in Listed(graph) :
               /\ lock(graph, e)
               /\ graph.edges[e].m_Name \in DOMAIN graph.m_Edges
               /\ graph.m_Edges[graph.edges[e].m_Name] = e
        /\ \A n \in DOMAIN graph.m_Edges :
               /\ graph.edges[graph.m_Edges[n]].m_Source \in DOMAIN graph.m_Nodes
               /\ graph.edges[graph.m_Edges[n]].m_Target \in DOMAIN graph.m_Nodes
        /\ size(graph) = Cardinality(Listed(graph))
        /\ order(graph) = Cardinality(DOMAIN graph.m_Nodes)

\* C23: after any sequence of registerSRG, pattern applications, deleteSRG,
\* deletePattern and deleteQuery, an SRG node exists exactly while at least one
\* subgraph in the repository claims it: no node has an empty spawn set, every
\* id in a node's spawn set is a subgraph in the repository, and every node
\* that a subgraph in the repository declares is in the SRG with that subgraph
\* in its spawn set.
C23_NodeLifetime ==
    /\ \A v \in DOMAIN mgr.m_Nodes :
           /\ mgr.m_Nodes[v] # {}
           /\ mgr.m_Nodes[v] \subseteq DOMAIN mgr.m_GraphRepository
    /\ \A id \in DOMAIN mgr.m_GraphRepository :
           \A v \in mgr.m_GraphRepository[id].nodes :
               v \in DOMAIN mgr.m_Nodes /\ id \in mgr.m_Nodes[v]

\* C24: deleteSRG( id ) for an id that is not in the repository, because it
\* was never registered or has already been deleted, reports an error to the
\* caller and does not return normally.
C24_UnknownSubgraphRaises ==
    [][(mgr'.call.op = "deleteSRG" /\ mgr'.call.id \notin DOMAIN mgr.m_GraphRepository)
           => mgr'.call.threw]_allVars

\* C25: announcing a pattern, a query or a base SRG under an id that the
\* client has already announced (the announcement is not stored) fails with an
\* error and leaves the pattern list, the query list, the SRG and the subgraph
\* repository as they were before the call.
C25_DuplicateFails ==
    [][(/\ srv'.call.m_Type \in {"SRGRegistration", "Pattern", "Query"}
        /\ srv'.m_Store = srv.m_Store)
           => /\ srv'.call.threw
              /\ mgr'.m_Patterns = mgr.m_Patterns
              /\ mgr'.m_ActiveQueries = mgr.m_ActiveQueries
              /\ mgr'.m_Nodes = mgr.m_Nodes
              /\ mgr'.m_Edges = mgr.m_Edges
              /\ mgr'.m_GraphRepository = mgr.m_GraphRepository]_allVars

\* C27: once recomputeAllQueries() has run its passes on a set of
\* registrations, running applyAllPatterns() again without a registration or
\* a deletion in between instantiates no pattern and adds no edge.
C27_FixedPoint ==
    [][(srv.call.m_Type = "recompute" /\ mgr'.call.op = "applyAllPatterns")
           => /\ mgr'.call.created = {}
              /\ mgr'.m_Edges = mgr.m_Edges]_allVars

\* C26: incremental client delta. After incrementalCompareDataflows, the
\* documents are those of the clients of the responses and of the clients
\* that had a running set; in each document no id appears twice, the
\* subgraphs with a body are exactly the requested ids that were not running
\* on that client before, the subgraphs without a body are exactly the ids
\* that were running and are not requested any more, and the new running set
\* of each client of the responses is the set of its requested ids.
C26_IncrementalDelta ==
    [][srv'.call.m_Type = "compare" =>
          LET requested == srv'.call.requested
              previous == srv.m_pClientDataflowState
          IN /\ DOMAIN srv'.document = DOMAIN requested \cup DOMAIN previous
             /\ srv'.m_pClientDataflowState = requested
             /\ \A clientID \in DOMAIN srv'.document :
                    LET doc == srv'.document[clientID]
                        withBody == { i \in 1..Len(doc) : doc[i].m_Edges # {} }
                        noBody == { i \in 1..Len(doc) : doc[i].m_Edges = {} }
                    IN /\ \A i, j \in 1..Len(doc) : doc[i].m_ID = doc[j].m_ID => i = j
                       /\ { doc[i].m_ID : i \in withBody }
                              = SetOf(requested, clientID) \ SetOf(previous, clientID)
                       /\ { doc[i].m_ID : i \in noBody }
                              = SetOf(previous, clientID) \ SetOf(requested, clientID)
                       /\ \A i \in noBody : doc[i].m_Name = doc[i].m_ID]_allVars

\* C26 witness: a round after which one client's document holds a new
\* subgraph and a deletion, and another client keeps a requested subgraph
\* running that its document does not hold.
C26_Witness ==
    /\ srv.call.m_Type = "compare"
    /\ \E clientID \in DOMAIN srv.document :
           LET doc == srv.document[clientID]
           IN /\ \E i \in 1..Len(doc) : doc[i].m_Edges # {}
              /\ \E i \in 1..Len(doc) : doc[i].m_Edges = {}
    /\ \E clientID \in DOMAIN srv.call.requested :
           \E id \in srv.call.requested[clientID] :
               \A i \in 1..Len(srv.document[clientID]) : srv.document[clientID][i].m_ID # id

\* C28: the stored eventPriority of every component lies in 0..255, after
\* assignEventPriorities() and after any write of the attribute.
C28_PriorityRange ==
    \A c \in m_componentIDMap :
        eventPriority[c] >= 0 /\ eventPriority[c] <= DFN_MAX_PATHLENGTH

\* the payloads passed to send() that checkSize accepts, in the order of the
\* calls, and those of them that are not empty
Accepted == SelectSeq(tcp.sent, LAMBDA data : checkSize(Bytes(data)))
AcceptedNonEmpty == SelectSeq(Accepted, LAMBDA data : data # << >>)
StartsWith(list, prefix) ==
    Len(prefix) <= Len(list) /\ \A i \in 1..Len(prefix) : list[i] = prefix[i]

\* C29: TCP framing round trip. The buffers passed to the receive handler are
\* always the first of the payloads of up to 1 MiB that were passed to send(),
\* in the order of the calls and byte for byte, and when everything written
\* has been read on a connection that was not reset they are all of them; the
\* receiving side turns bad only when the connection was reset.
C29_RoundTrip ==
    /\ StartsWith(Accepted, tcp.received)
    /\ (~ tcp.reset /\ tcp.stream = << >> /\ tcp.read = "size") => tcp.received = Accepted
    /\ tcp.m_bBadSocket => tcp.reset

\* C29 as amended: the same for the payloads of 1 to 1 MiB bytes; an empty
\* payload is written as a header 00000000 and is not passed to the handler.
C29_RoundTripNonEmpty ==
    /\ StartsWith(AcceptedNonEmpty, tcp.received)
    /\ (~ tcp.reset /\ tcp.stream = << >> /\ tcp.read = "size")
           => tcp.received = AcceptedNonEmpty
    /\ tcp.m_bBadSocket => tcp.reset

\* C29 witness: two different payloads, one of them of 1 MiB, have been passed
\* to the receive handler in the order in which they were sent.
C29_Witness ==
    /\ Len(tcp.received) = 2
    /\ tcp.received = tcp.sent
    /\ Bytes(tcp.received[1]) # Bytes(tcp.received[2])
    /\ \E i \in 1..2 : Bytes(tcp.received[i]) = g_nMaxPacketSize

\* C30: an oversized frame ends the connection. Once a header has announced
\* more than 1 MiB the connection is bad, its socket is closed, and no
\* further buffer is passed to the receive handler.
C30_OversizedCloses ==
    [][tcp'.oversized => /\ tcp'.m_bBadSocket
                         /\ tcp'.socket = "closed"
                         /\ (tcp.oversized => tcp'.received = tcp.received)]_allVars

---------------------------------------------------------------------------
(* The order of the queue *)

\* the priorities of the events of q do not decrease from head to tail
Sorted(q, E) == \A i \in 1..Len(q) : \A j \in i..Len(q) : E[q[i]].priority <= E[q[j]].priority

\* C34: whenever the queue mutex is free (every action is one critical section
\* of m_Mutex, so in every state), the priorities of the queued events do not
\* decrease from head to tail
C34_QueueSorted == Sorted(m_Queue, ev)

\* C34: a call of queue() has put an event in front of a queued event of higher
\* priority, and the queue holds three events of two priorities
C34_Witness ==
    /\ Len(m_Queue) = 3
    /\ \E i \in 1..2 : m_Queue[i] > m_Queue[i + 1] /\ ev[m_Queue[i]].priority < ev[m_Queue[i + 1]].priority
    /\ \E i \in 1..3 : ev[m_Queue[i]].priority # ev[m_Queue[1]].priority

---------------------------------------------------------------------------
(* The counters of the receivers *)

\* C39: whenever the queue mutex is free, the counter of every receiver is the
\* number of queued events that reference it (and so is never negative)
C39_CountsExact ==
    \A r \in Receivers :
        /\ nQueuedEvents[r] = CountIn(m_Queue, ev, r)
        /\ nQueuedEvents[r] >= 0

\* C39: an event has been dropped by the cap and one has been erased by
\* removeComponent(), and a receiver still has an event in the queue
C39_Witness ==
    /\ \E i \in 1..Len(ev) : fate[i] = "dropped"
    /\ \E i \in 1..Len(ev) : fate[i] = "removed"
    /\ \E r \in Receivers : nQueuedEvents[r] > 0

---------------------------------------------------------------------------
(* The life cycle under fair scheduling *)

\* events as PushSupplier::send() posts them: one QueueData for a connected
\* consumer, always with the receiver info of its port (PushSupplier.h 133-137)
SentEvents == { events \in Singles : events[1].pReceiverInfo # NoReceiver }

\* start(), stop() and queue() called by application threads while the worker
\* thread dispatches; the queue is not destroyed
NextFair ==
    \/ start
    \/ \E t \in Clients : stop_call(t)
    \/ \E t \in Clients : stop_woken(t)
    \/ \E events \in SentEvents : Len(ev) < MaxPosted /\ queue(events)
    \/ worker_take
    \/ worker_stopped
    \/ worker_wait
    \/ worker_invoke
    \/ \E o \in Outcomes : worker_handled(o)
    \/ spurious_wakeup

\* one step of threadFunction(); the handler it has called comes to an end
WorkerStep ==
    \/ worker_take
    \/ worker_stopped
    \/ worker_wait
    \/ worker_invoke
    \/ \E o \in Outcomes : worker_handled(o)

\* a thread that can run does run: the worker thread (boost::thread of line 82),
\* and a thread in stop() that wait() has woken up and that gets m_Mutex again
Scheduling ==
    /\ WF_vars(WorkerStep)
    /\ \A t \in Clients : WF_vars(stop_woken(t))

SpecFair == Init /\ [][NextFair]_vars /\ Scheduling

\* C32: every call of stop() that has begun to wait returns in the end
C32_StopReturns == \A t \in Clients : (cpc[t] = "stop_wait") ~> (cpc[t] = "idle")

\* event i has been accepted by queue() and has not left the queue
Stranded(i) == i <= Len(ev) /\ fate[i] \notin {"invoked", "dropped"}

\* C31: while the state stays running, every event accepted by queue() is
\* dispatched or dropped in the end, and the worker does not stay in wait()
\* with an event in the queue: it is not in wait() at all while the state is
\* running and the queue is not empty
C31_NoEventStranded ==
    /\ \A i \in 1..MaxPosted :
          Stranded(i) ~> (~ Stranded(i) \/ m_State # state_running)
    /\ [](wpc = "wait" /\ m_State = state_running => m_Queue = <<>>)

\* C31: the queue is running, the worker has dispatched every event that the
\* queue() calls have posted, and it is back in wait() with an empty queue
C31_Witness ==
    /\ m_State = state_running
    /\ wpc = "wait"
    /\ Len(ev) = MaxPosted
    /\ \A i \in 1..Len(ev) : fate[i] = "invoked"
    /\ calls = MaxPosted

---------------------------------------------------------------------------
(* assignEventPriorities() run to its end *)

\* the thread that has called assignEventPriorities() goes on running
SpecPrioFair == InitPrio /\ [][NextPrio]_allVars /\ WF_allVars(NextPrio)

\* the entries that the step has pushed behind the entry it has marked
Pushed == { aep'.search[k].pComponent : k \in (Len(aep.search) + 1)..Len(aep'.search) }

\* the components from which component c can be reached along the connections
RECURSIVE Upstream(_, _)
Upstream(S, n) ==
    IF n = 0 THEN S
    ELSE Upstream(S \cup { SourceOf(x) : x \in { y \in m_allConnections : DestinationOf(y) \in S } }, n - 1)

\* a sink from which the upstream search comes to a cycle
SinkBelowCycle ==
    \E s \in m_componentIDMap :
        /\ m_outConnectionMap[s] = {}
        /\ \E c \in Upstream({s}, MaxComponents) :
              c \in Upstream({ SourceOf(x) : x \in m_inConnectionMap[c] }, MaxComponents)

\* C36: assignEventPriorities() returns on every network, and no step of the
\* upstream search queues a component that is on the current search path
C36_Terminates ==
    /\ <>(aep.pc = "done")
    /\ [][aep_visit => Pushed \cap aep'.visiting = {}]_allVars

\* C36: assignEventPriorities() has returned on a network in which the search
\* from a sink has come to a cycle
C36_Witness ==
    /\ aep.pc = "done"
    /\ Cardinality(m_componentIDMap) = MaxComponents
    /\ SinkBelowCycle

---------------------------------------------------------------------------
(* Components that leave the network: DataflowNetwork::dropComponent and   *)
(* DataflowNetwork::processUTQLResponse. The network is the record of its  *)
(* components n, their event priorities p and its connections e; a missing *)
(* entry of a connection map and an entry with an empty set are the same.  *)

Network == [n |-> m_componentIDMap, p |-> eventPriority, e |-> m_allConnections]

\* DataflowNetwork::disconnectComponent (lines 345-386)
disconnectComponent(net, name) ==
    [net EXCEPT !.e = { x \in @ : SourceOf(x) # name /\ DestinationOf(x) # name }]

\* DataflowNetwork::createComponent (lines 171-230) for a configuration that
\* the component factory accepts; Component::Component sets the priority to 0
createComponent(net, componentName) ==
    [net EXCEPT !.n = @ \cup {componentName},
                !.p = [c \in net.n \cup {componentName} |->
                          IF c = componentName THEN 0 ELSE net.p[c]]]

\* the body of dropComponent (lines 241-242) for a component that is found
erased(net, name) ==
    LET isolated == disconnectComponent(net, name)
    IN [isolated EXCEPT !.n = @ \ {name}, !.p = [c \in net.n \ {name} |-> net.p[c]]]

\* the search of assignEventPriorities from one sink (lines 484-519)
RECURSIVE aepSearch(_, _, _, _)
aepSearch(search, visiting, p, e) ==
    IF search = << >> THEN p
    ELSE LET last == Len(search)
             c == search[last].pComponent
             prio == search[last].priority
         IN IF prio < 0
            THEN aepSearch(SubSeq(search, 1, last - 1), visiting \ {c}, p, e)
            ELSE LET now == visiting \cup {c}
                     queued == SelectSeq(Ancestors({ x \in e : DestinationOf(x) = c }),
                                         LAMBDA u : u \notin now)
                 IN aepSearch([search EXCEPT ![last].priority = -1] \o
                                  [k \in 1..Len(queued) |-> AEPSearchInfo(prio - 1, queued[k])],
                              now,
                              IF p[c] > prio THEN [p EXCEPT ![c] = prio] ELSE p,
                              e)

\* the loop over the sinks (lines 474-483)
RECURSIVE aepSinks(_, _, _)
aepSinks(names, p, e) ==
    IF names = << >> THEN p
    ELSE IF \E x \in e : SourceOf(x) = Head(names)
    THEN aepSinks(Tail(names), p, e)
    ELSE aepSinks(Tail(names),
                  aepSearch(<< AEPSearchInfo(DFN_MAX_PATHLENGTH, Head(names)) >>, {}, p, e), e)

\* DataflowNetwork::assignEventPriorities (lines 462-527) as one call
assignEventPriorities(net) ==
    [net EXCEPT !.p = aepSinks(SortedIds(net.n), [c \in net.n |-> DFN_MAX_PATHLENGTH], net.e)]

\* the first loop without the branch that deletes (lines 84-88)
RECURSIVE considerComponents_NoDrop(_, _, _)
considerComponents_NoDrop(net, doc, i) ==
    IF i > Len(doc) THEN net
    ELSE LET subgraph == doc[i]
             known == subgraph.m_ID # 0 /\ subgraph.m_ID \in net.n
         IN considerComponents_NoDrop(
                IF known
                THEN disconnectComponent(net, subgraph.m_ID)
                ELSE IF subgraph.m_DataflowConfiguration # ""
                     THEN createComponent(net, subgraph.m_ID)
                     ELSE net,
                doc, i + 1)

\* the first loop of processUTQLResponse (lines 64-116)
RECURSIVE considerComponents(_, _, _)
considerComponents(net, doc, i) ==
    IF i > Len(doc) THEN net
    ELSE LET subgraph == doc[i]
             known == subgraph.m_ID # 0 /\ subgraph.m_ID \in net.n
         IN considerComponents(
                IF known
                THEN IF subgraph.m_Nodes = {}
                     THEN erased(disconnectComponent(net, subgraph.m_ID), subgraph.m_ID)
                     ELSE disconnectComponent(net, subgraph.m_ID)
                ELSE IF subgraph.m_DataflowConfiguration # ""
                     THEN createComponent(net, subgraph.m_ID)
                     ELSE net,
                doc, i + 1)

\* the connections that the second loop makes (lines 120-164): one for every
\* input edge with a reference and without the attribute remotePatternID, if
\* both subgraphs have a dataflow configuration
makeConnections(net, doc) ==
    LET configured == { doc[j].m_ID : j \in { k \in 1..Len(doc) : doc[k].m_DataflowConfiguration # "" } }
    IN [net EXCEPT !.e = @ \cup
           { Edge(edge.m_EdgeReference, doc[i].m_ID) :
                 <<i, edge>> \in { y \in (1..Len(doc)) \X UNION { doc[k].m_Edges : k \in 1..Len(doc) } :
                     /\ y[2] \in doc[y[1]].m_Edges
                     /\ y[2].remotePatternID = 0
                     /\ y[2].m_EdgeReference # 0
                     /\ doc[y[1]].m_DataflowConfiguration # ""
                     /\ y[2].m_EdgeReference \in net.n \cup configured } }]

\* the network variables hold the network net
NetworkBecomes(net) ==
    /\ m_componentIDMap' = net.n
    /\ eventPriority' = net.p
    /\ m_allConnections' = net.e
    /\ m_inConnectionMap' = InMap(net.n, net.e)
    /\ m_outConnectionMap' = OutMap(net.n, net.e)

\* DataflowNetwork::dropComponent (lines 232-244) of a component of the network
\* (it throws for any other name): nothing of it touches the event queue
dropComponent(name) ==
    /\ name \in m_componentIDMap
    /\ NetworkBecomes(erased(Network, name))
    /\ UNCHANGED << vars, aep, tc, ports, pm, mgr, moreVars >>

\* DataflowNetwork::processUTQLResponse (lines 60-168)
processUTQLResponse(doc) ==
    /\ NetworkBecomes(assignEventPriorities(makeConnections(considerComponents(Network, doc, 1), doc)))
    /\ UNCHANGED << vars, aep, tc, ports, pm, mgr, graph, tcp >>
    /\ srv' = IF srv = << >> THEN srv ELSE [srv EXCEPT !.call.m_Type = "processed"]

\* a supplier component 3 whose output is connected to the components 1 and 2
\* of the receivers
DropNetwork == [n |-> 1..3, e |-> { Edge(3, c) : c \in Components }]

InitDrop ==
    /\ Constructed /\ nMaxQueueLength = PortCaps
    /\ NetworkBuilt(DropNetwork)
    /\ NoTrigger /\ NoPorts /\ NoMatcher /\ NoManager
    /\ NoGraph /\ NoServer /\ NoTcp

\* PushSupplierCore::send() posts an event for the consumers in m_pushConsumers,
\* which are the ports that are connected to the supplier
Consumers == { r \in Receivers : \E x \in m_allConnections : DestinationOf(x) = PortComponent(r) }

\* a running network from which components are dropped, by dropComponent() or
\* by a document with an empty subgraph of their id, while events are sent
NextDrop ==
    \/ start
    \/ \E events \in SentEvents :
          /\ Len(ev) < MaxPosted
          /\ events[1].pReceiverInfo \in Consumers
          /\ queue(events)
    \/ worker_take
    \/ worker_wait
    \/ worker_invoke
    \/ \E o \in Outcomes : worker_handled(o)
    \/ \E name \in DropNetwork.n : dropComponent(name)
    \/ \E name \in DropNetwork.n : processUTQLResponse(<< deletedSubgraph(name) >>)

SpecDrop == InitDrop /\ [][NextDrop]_allVars

\* C33: the worker invokes no handler of a port whose component has been
\* dropped from the network
C33_DroppedReceivesNothing ==
    [][worker_invoke => CompOf(ev, wcur) \in m_componentIDMap]_allVars

---------------------------------------------------------------------------
(* The server and one client: the documents of incrementalCompareDataflows *)
(* are applied by the client's network, each before the next round. In the *)
(* record of the server, call.m_Type tells whether the document of the     *)
(* last round has been processed by the client.                            *)

\* the client whose DataflowNetwork object the network variables are
TheClient == 1

\* the ids of the subgraphs that the manager hands out in the rounds
RoundIDs == 1..(MaxSubgraphIDs + 1)

\* the document of the last round for a client: an empty one if the
\* distribution has none for it
DocumentFor(clientID) ==
    IF clientID \in DOMAIN srv.document THEN srv.document[clientID] ELSE << >>

InitStep ==
    /\ Constructed /\ nMaxQueueLength = PortCaps /\ NetworkConstructed
    /\ NoTrigger /\ NoPorts /\ NoMatcher /\ NoManager /\ NoGraph /\ NoTcp
    /\ srv = ServerConstructed

NextStep ==
    \/ \E responses \in Responses({TheClient}, RoundIDs) :
          /\ srv.call.m_Type # "compare"
          /\ incrementalCompareDataflows(responses)
    \/ /\ srv.call.m_Type = "compare"
       /\ processUTQLResponse(DocumentFor(TheClient))

SpecStep == InitStep /\ [][NextStep]_allVars

\* the subgraphs of the running set of a client that carry a dataflow
\* configuration
RunningComponents(clientID) ==
    { subgraphID \in SetOf(srv.m_pClientDataflowState, clientID) : Configuration(subgraphID) # "" }

---------------------------------------------------------------------------
(* The subgraph repository and the world SRG *)

\* C40: the subgraph of every SRG edge is in the repository, and every output
\* edge of every subgraph of the repository is an edge of the SRG, under the
\* name of the subgraph id and the local name
C40_RepositoryAgrees ==
    /\ \A name \in DOMAIN mgr.m_Edges :
           mgr.m_Edges[name].m_SubgraphID \in DOMAIN mgr.m_GraphRepository
    /\ \A subgraphID \in DOMAIN mgr.m_GraphRepository :
           \A output \in mgr.m_GraphRepository[subgraphID].outputs :
               /\ EdgeName(subgraphID, output) \in DOMAIN mgr.m_Edges
               /\ mgr.m_Edges[EdgeName(subgraphID, output)].m_SubgraphID = subgraphID

---------------------------------------------------------------------------
(* Pulls from inside handlers: a handler of a component, or the supplier   *)
(* function of a component that serves a pull, calls get() on a pull       *)
(* consumer port of its component and so locks the mutex of the supplier's *)
(* component while the thread holds the mutex of its own. Here pullComp is *)
(* for every thread the stack of its get() calls, each with the supplier's *)
(* component c and whether its mutex has been locked.                      *)

\* the components with a mutex: those of the receivers and a third one, which
\* has no push consumer port
PullComponents == 1..MaxComponents

\* every two components are connected, one way or the other
Complete ==
    \A u, v \in PullComponents :
        u # v => Edge(u, v) \in m_allConnections \/ Edge(v, u) \in m_allConnections

\* a network of PullComponents without a cycle, in which a connection from u
\* to v is one from a pull supplier port of u to a pull consumer port of v.
\* Every network without a cycle is a complete one with connections left
\* out, and a connection that is left out only takes get() calls away.
InitNest ==
    /\ m_State = state_stopped
    /\ m_Queue = <<>>
    /\ ev = <<>>
    /\ nQueuedEvents = [r \in Receivers |-> 0]
    /\ nMaxQueueLength = PortCaps
    /\ mutexOwner = [c \in PullComponents |-> NoThread]
    /\ wpc = "loop"
    /\ wcur = 0
    /\ cpc = [t \in Clients |-> "idle"]
    /\ ccur = [t \in Clients |-> 0]
    /\ pullComp = [t \in Threads |-> << >>]
    /\ fate = <<>>
    /\ handled = <<>>
    /\ quiesced = FALSE
    /\ deferred = {}
    /\ calls = 0
    /\ stopFoundHandler = FALSE
    /\ \E net \in SmallNetworks(MaxComponents) : NetworkBuilt(net)
    /\ Acyclic
    /\ Complete
    /\ NoTrigger /\ NoPorts /\ NoMatcher /\ NoManager
    /\ NoGraph /\ NoServer /\ NoTcp

\* the get() call that thread t has made last and that has not returned
Innermost(t) == pullComp[t][Len(pullComp[t])]

\* the component whose code thread t executes (0: none): the supplier of its
\* innermost get() once the mutex is locked, or the component of its handler
Executing(t) ==
    IF pullComp[t] # << >>
    THEN IF Innermost(t).held THEN Innermost(t).c ELSE 0
    ELSE IF t = Worker
    THEN IF wpc = "handler" THEN CompOf(ev, wcur) ELSE 0
    ELSE IF cpc[t] = "dn_handler" THEN CompOf(ev, ccur[t]) ELSE 0

\* a get() that the code of a component calls on a port that is connected to
\* any component, whatever the connections of the network are
get_call_Unconnected(t, c) ==
    /\ Alive
    /\ calls - Len(ev) < MaxCalls
    /\ IF t \in Clients /\ cpc[t] = "idle"
       THEN cpc' = [cpc EXCEPT ![t] = "pull"]
       ELSE /\ Executing(t) # 0
            /\ UNCHANGED cpc
    /\ pullComp' = [pullComp EXCEPT ![t] = Append(@, [c |-> c, held |-> FALSE])]
    /\ calls' = calls + 1
    /\ UNCHANGED << m_State, m_Queue, ev, nQueuedEvents, nMaxQueueLength, mutexOwner,
                    wpc, wcur, ccur, fate, handled, quiesced, stopFoundHandler, otherVars, deferred >>

\* PullConsumerCore::get (PullConsumer.h lines 67-81) up to the scoped_lock of
\* line 76, called on a port whose supplier is a port of component c: by the
\* code of a component that has a connection from c, or by an application
\* thread that holds no mutex. Every queue() call has posted one event, so
\* calls - Len(ev) is the number of get() calls.
get_call(t, c) ==
    /\ Alive
    /\ calls - Len(ev) < MaxCalls
    /\ IF t \in Clients /\ cpc[t] = "idle"
       THEN cpc' = [cpc EXCEPT ![t] = "pull"]
       ELSE /\ Executing(t) # 0
            /\ Edge(c, Executing(t)) \in m_allConnections
            /\ UNCHANGED cpc
    /\ pullComp' = [pullComp EXCEPT ![t] = Append(@, [c |-> c, held |-> FALSE])]
    /\ calls' = calls + 1
    /\ UNCHANGED << m_State, m_Queue, ev, nQueuedEvents, nMaxQueueLength, mutexOwner,
                    wpc, wcur, ccur, fate, handled, quiesced, stopFoundHandler, otherVars, deferred >>

\* line 77: the supplier function has returned or thrown, the lock is released
get_return(t) ==
    /\ Alive
    /\ pullComp[t] # << >>
    /\ Innermost(t).held
    /\ mutexOwner' = Unlocked(Innermost(t).c)
    /\ pullComp' = [pullComp EXCEPT ![t] = SubSeq(@, 1, Len(@) - 1)]
    /\ cpc' = IF t \in Clients /\ cpc[t] = "pull" /\ Len(pullComp[t]) = 1
              THEN [cpc EXCEPT ![t] = "idle"]
              ELSE cpc
    /\ UNCHANGED << m_State, m_Queue, ev, nQueuedEvents, nMaxQueueLength,
                    wpc, wcur, ccur, fate, handled, quiesced, stopFoundHandler, otherVars, deferred, calls >>

\* line 76: the scoped_lock has got the mutex of the supplier's component
get_lock(t) ==
    /\ Alive
    /\ pullComp[t] # << >>
    /\ ~ Innermost(t).held
    /\ CanLock(t, Innermost(t).c)
    /\ mutexOwner' = Locked(t, Innermost(t).c)
    /\ pullComp' = [pullComp EXCEPT ![t][Len(pullComp[t])].held = TRUE]
    /\ UNCHANGED << m_State, m_Queue, ev, nQueuedEvents, nMaxQueueLength,
                    wpc, wcur, cpc, ccur, fate, handled, quiesced, stopFoundHandler, otherVars, deferred, calls >>

\* the application thread that calls dispatchNow() and the one that pulls
Dispatcher == "c1"
Puller == "c2"

\* the worker thread, a thread in dispatchNow() and a thread that pulls, with
\* the pulls that the handlers and the supplier functions make; a handler
\* ends when the get() calls it has made have returned
NextNest ==
    \/ start
    \/ \E events \in SentEvents : Len(ev) < MaxPosted /\ queue(events)
    \/ worker_take
    \/ worker_wait
    \/ worker_invoke
    \/ \E o \in Outcomes : pullComp[Worker] = << >> /\ worker_handled(o)
    \/ dispatchNow_take(Dispatcher)
    \/ dispatchNow_return(Dispatcher)
    \/ dispatchNow_invoke(Dispatcher)
    \/ \E o \in Outcomes : pullComp[Dispatcher] = << >> /\ dispatchNow_handled(Dispatcher, o)
    \/ \E t \in Threads \ {Dispatcher}, c \in PullComponents :
          /\ t = Puller \/ Executing(t) # 0
          /\ get_call(t, c)
    \/ \E c \in PullComponents : Executing(Dispatcher) # 0 /\ get_call(Dispatcher, c)
    \/ \E t \in Threads : get_lock(t)
    \/ \E t \in Threads : get_return(t)

\* the steps that a thread takes once it has begun: a runnable thread runs,
\* and the code of a handler or of a supplier function comes to its end
Committed(t) ==
    \/ get_lock(t)
    \/ get_return(t)
    \/ /\ t = Worker
       /\ \/ worker_take
          \/ worker_wait
          \/ worker_invoke
          \/ \E o \in Outcomes : pullComp[Worker] = << >> /\ worker_handled(o)
    \/ /\ t \in Clients
       /\ \/ cpc[t] = "dn_loop" /\ dispatchNow_take(t)
          \/ dispatchNow_return(t)
          \/ dispatchNow_invoke(t)
          \/ \E o \in Outcomes : pullComp[t] = << >> /\ dispatchNow_handled(t, o)

SpecNest == InitNest /\ [][NextNest]_allVars /\ \A t \in Threads : WF_allVars(Committed(t))

\* the mutex that thread t is about to lock (0: none)
Wanted(t) ==
    IF pullComp[t] # << >> /\ ~ Innermost(t).held THEN Innermost(t).c
    ELSE IF t = Worker
    THEN IF wpc = "dispatch" THEN MutexOf(ev, wcur) ELSE 0
    ELSE IF cpc[t] = "dn_dispatch" THEN MutexOf(ev, ccur[t]) ELSE 0

\* thread t waits for a mutex that thread u holds
WaitsFor(t, u) == t # u /\ Wanted(t) # 0 /\ mutexOwner[Wanted(t)] = u

\* C37: no set of threads waits for each other's component mutex, and every
\* thread that is about to lock a component mutex, for a handler or for a
\* pull, gets it
C37_NoDeadlock ==
    /\ [](\A S \in SUBSET Threads : S = {} \/ \E t \in S : \A u \in S : ~ WaitsFor(t, u))
    /\ \A t \in Threads : (Wanted(t) # 0) ~> (Wanted(t) = 0)

\* C37: the worker thread executes a handler and waits for the mutex of a
\* supplier that another thread holds for a pull of its own, while a third
\* thread waits for the mutex that the worker holds
C37_Witness ==
    /\ wpc = "handler"
    /\ \E t, u \in Clients : WaitsFor(Worker, t) /\ WaitsFor(u, Worker)

---------------------------------------------------------------------------
(* Space expansion: ExpansionInPort.h, with                                *)
(* TriggerComponent::generateSpaceExpansionPorts                           *)

\* a push-mode master port "Input" in trigger group 0 and its slave ports
\* 1..n, as generateSpaceExpansionPorts (TriggerComponent.cpp lines 58-107)
\* clones them: group 0 holds no other port, so that every slave gets a
\* trigger group of its own (line 82)
ExpansionComponent(n, bPush) ==
    [ m_slaves |-> 1..n,
      m_bPushOutput |-> bPush,
      m_bHasNewPush |-> FALSE,
      m_timestamp |-> 0,                            \* of the master port
      m_vectorMeasurement |-> <<>>,                 \* of the master port: << slave, time >>
      slaveTimestamp |-> [i \in 1..n |-> 0],        \* m_timestamp of each slave
      queued |-> <<>>,                              \* the events in the event queue: << slave, time >>
      sent |-> 0,                                   \* the measurements sent so far
      computed |-> <<>>,                            \* the timestamps of the compute() calls
      vectors |-> <<>> ]                            \* what the master port held at each of them

InitExpand ==
    /\ Constructed /\ nMaxQueueLength = PortCaps /\ NetworkConstructed
    /\ \E n \in 1..MaxTrigPorts, bPush \in BOOLEAN : tc = ExpansionComponent(n, bPush)
    /\ NoPorts /\ NoMatcher /\ NoManager
    /\ NoGraph /\ NoServer /\ NoTcp

\* PushConsumerCore::getQueuedEvents (PushConsumer.h lines 80-81) of slave i:
\* ReceiverInfo::nQueuedEvents, the number of its events in the event queue
getQueuedEvents(s, i) == Cardinality({k \in DOMAIN s.queued : s.queued[k][1] = i})

\* ExpansionInPort::eventsWaiting (lines 318-322)
eventsWaiting(s, i) == getQueuedEvents(s, i) # 0

\* ExpansionInPort::storeMeasurement (lines 271-314) of slave i, which holds
\* a single measurement
storeMeasurement(s, i) ==
    LET r == IF s.slaveTimestamp[i] # s.m_timestamp
             THEN [s EXCEPT !.m_timestamp = s.slaveTimestamp[i],
                            !.m_vectorMeasurement = <<>>]
             ELSE s
    IN [r EXCEPT !.m_vectorMeasurement = Append(@, << i, s.slaveTimestamp[i] >>)]

\* TriggerComponent::triggerIn (TriggerComponent.cpp lines 111-124) called
\* with the master port: trigger group 0 holds the master port alone, whose
\* timestamp is the one that is asked for
masterTriggerIn(s) ==
    IF s.m_bPushOutput
    THEN [compute(s, s.m_timestamp) EXCEPT !.m_bHasNewPush = FALSE,
                                            !.vectors = Append(@, s.m_vectorMeasurement)]
    ELSE [s EXCEPT !.m_bHasNewPush = TRUE]

\* ExpansionInPort::slaveTrigger (lines 221-230)
slaveTrigger(s) ==
    IF \E i \in s.m_slaves : eventsWaiting(s, i)
    THEN s
    ELSE masterTriggerIn(s)

\* ExpansionInPort::receivePushSingle (lines 162-195) of slave i: its trigger
\* group holds the slave alone, so that trigger( m_timestamp ) returns true
receivePushSingle(s, i, t) ==
    slaveTrigger(storeMeasurement([s EXCEPT !.slaveTimestamp[i] = t], i))

\* PushSupplierCore::send (PushSupplier.h lines 126-142) of the supplier that
\* is connected to slave i: the event is put into the event queue
sendToSlave(i, t) ==
    /\ tc.sent < MaxPushed
    /\ i \in tc.m_slaves
    /\ tc' = [tc EXCEPT !.queued = Append(@, << i, t >>), !.sent = @ + 1]
    /\ UNCHANGED << vars, moreVars, dfnVars, ports, pm, mgr >>

\* EventQueue::threadFunction (EventQueue.cpp lines 365-409): the first event
\* leaves the queue, nQueuedEvents of its port is decremented and its handler
\* is called with the mutex of the component locked
dispatchToSlave ==
    /\ tc.queued # <<>>
    /\ tc' = receivePushSingle([tc EXCEPT !.queued = Tail(@)],
                               Head(tc.queued)[1], Head(tc.queued)[2])
    /\ UNCHANGED << vars, moreVars, dfnVars, ports, pm, mgr >>

NextExpand ==
    \/ \E i \in 1..MaxTrigPorts, t \in Times : sendToSlave(i, t)
    \/ dispatchToSlave

SpecExpand == InitExpand /\ [][NextExpand]_allVars

\* the slaves whose measurement for time t is in vector v
Delivered(v, t) == {v[k][1] : k \in {j \in DOMAIN v : v[j][2] = t}}

\* C35: at every compute step that the master port has triggered, it held a
\* measurement of every slave port for the timestamp of the step
C35_CompleteSet ==
    \A k \in DOMAIN tc.computed : Delivered(tc.vectors[k], tc.computed[k]) = tc.m_slaves

====
